---- MODULE Spec2Model ----
(***************************************************************************)
(* A model of the data plane of proxmox-tui: the cluster snapshot build    *)
(* (pkg/api cluster.go, the revision with FastGetClusterStatus and the     *)
(* StorageManager), the guest enricher (pkg/api/vm.go, the revision with   *)
(* the worker pool), the response cache behind GetWithCache and the        *)
(* refresh handler of the UI (internal/ui/components/refresh.go).          *)
(*                                                                         *)
(* Upstream answers are chosen when a request is made: a request either    *)
(* fails or succeeds, and a guest's agent is disabled, down or up.         *)
(***************************************************************************)
EXTENDS Integers, Sequences, FiniteSets, TLC

\* ---------------------------------------------------------------- bounds

\* Node records in the /cluster/status response (specification Spec).
MaxNodes == 3

\* Guest records in the /cluster/resources response (specification SpecGuests).
MaxGuests == 2

\* Manual refresh requests of one run (specification SpecRefresh).
MaxRefresh == 2

\* Last value of the clock, in seconds (specification SpecRefresh).
MaxTime == 10

\* GetVmStatus calls made for one guest (specification SpecAgent).
MaxPasses == 2

\* Calls of GetVNCProxyWithWebSocket of one run (specification SpecVnc).
MaxVncCalls == 2

\* Script fetches of one run (specification SpecBackground).
MaxFetches == 2

\* VNC requests of one session (specification SpecShell).
MaxVncRequests == 3

\* Capacity of the task channel and of the error channel of an EnrichVMs call;
\* both are 100 in the program and are scaled down (specification SpecChannels).
ChanCap == 1

\* Running guests on the online node (specification SpecChannels): more than
\* the channels hold.
ChanGuests == 2

\* Running guests handed to one EnrichVMs call (specification SpecPool).
PoolGuests == 6

\* ------------------------------------------------------ program constants

VMTypeQemu == "qemu"
VMTypeLXC == "lxc"
VMStatusRunning == "running"
VMStatusStopped == "stopped"

\* EnrichVMs: const maxConcurrentRequests = 5
maxConcurrentRequests == 5

\* ------------------------------------------------------------- variables

VARIABLES
    upStatus,       \* upstream: the items of the /cluster/status response
    upResources,    \* upstream: the items of the /cluster/resources response
    upAnswers,      \* upstream: the answers a guest's requests can get
    upFixed,        \* upstream: the answer of each node and guest, when they are fixed
    fast,           \* the build is FastGetClusterStatus (else GetClusterStatus)
    hasCallback,    \* onEnrichmentComplete != nil
    pc,             \* position of the goroutine that runs the build
    cluster,        \* the *Cluster the build allocates and fills
    nodeTask,       \* phase 2: per node index, what its goroutine did
    nodeErrs,       \* phase 2: len(errors) of enrichNodeStatuses
    ret,            \* what the build returned to its caller
    enrichPc,       \* EnrichVMs: position of the goroutine that called it
    toQueue,        \* EnrichVMs: guests the queueing loop has still to send
    vmChan,         \* EnrichVMs: the buffered channel of guest tasks
    worker,         \* EnrichVMs: per worker, "off", "idle" or the guest it runs
    vmErrs,         \* EnrichVMs: len(errors)
    enrichErr,      \* whether the last EnrichVMs call returned a non-nil error
    calls,          \* vmid -> number of GetVmStatus calls made for the guest
    bgPc,           \* position of the background goroutine of a fast build
    retryLeft,      \* background goroutine: guests the retry loop has still to visit
    cbCount,        \* number of times onEnrichmentComplete was invoked
    now,            \* the clock, in seconds
    cache,          \* response cache: path -> entry (present, stored-at)
    lastGet,        \* the last request made through the cache and what it did
    refreshPc,      \* per manual refresh request, the position of its goroutine
    ui,             \* the lists of the UI: global state, shown lists, current items
    net,            \* the guest whose config and interfaces are read, and the answers
    cfg,            \* the config that is validated, and the result
    proc,           \* the process of main(): its inputs, its position, its exit code
    vnc,            \* the calls of GetVNCProxyWithWebSocket: guest, request sent, error
    vmTask,         \* per guest, the GetVmStatus call that runs for it: position, lock, request
    app,            \* the script selector, the header, the background fetches and the draw queue
    pool,           \* one EnrichVMs call with its two channels, its workers and its error collector
    shell           \* the VNC warning dialog, the flag vncWarningShown and the connections started

upVars == <<upStatus, upResources, upAnswers, upFixed>>
buildVars == <<fast, hasCallback, pc, nodeTask, nodeErrs, ret>>
enrichVars == <<enrichPc, toQueue, vmChan, worker, vmErrs, enrichErr>>
bgVars == <<bgPc, retryLeft, cbCount>>
cacheVars == <<now, cache, lastGet>>
appVars == <<proc, vnc, vmTask, app, pool, shell>>
coreVars == <<upVars, buildVars, cluster, calls, enrichVars, bgVars, cacheVars, refreshPc, ui, net, cfg>>

vars == <<coreVars, appVars>>

\* ------------------------------------------------------------- helpers

RECURSIVE SumSeq(_)
SumSeq(s) == IF s = <<>> THEN 0 ELSE Head(s) + SumSeq(Tail(s))

RECURSIVE Concat(_)
Concat(ss) == IF ss = <<>> THEN <<>> ELSE Head(ss) \o Concat(Tail(ss))

Range(s) == {s[i] : i \in DOMAIN s}

\* ---------------------------------------------------- the snapshot tree

\* NewStorageManager(): no storage registered
NewStorageManager == [shared |-> <<>>, local |-> <<>>]

\* &Cluster{Nodes: make([]*Node, 0), StorageManager: NewStorageManager(), ...}
NewCluster ==
    [Name |-> "", TotalNodes |-> 0, OnlineNodes |-> 0, TotalCPU |-> 0,
     Version |-> "", StorageTotal |-> 0, Nodes |-> <<>>,
     StorageManager |-> NewStorageManager]

\* &Node{ID: nodeName, Name: nodeName, IP: ..., Online: ...}: the other fields zero
NewNode(name, online) ==
    [Name |-> name, Online |-> online, Version |-> "", CPUCount |-> 0,
     CPUUsage |-> 0, MemoryTotal |-> 0, MemoryUsed |-> 0,
     lastMetricsUpdate |-> 0, Storage |-> <<>>, VMs |-> <<>>]

\* &VM{ID: ..., Node: ..., Type: resType, Status: ...}: the enrichment block zero
NewVM(id, node, type, status) ==
    [ID |-> id, Node |-> node, Type |-> type, Status |-> status,
     IP |-> "", AgentEnabled |-> FALSE, AgentRunning |-> FALSE,
     NetInterfaces |-> 0, Enriched |-> FALSE]

\* A nil error.
NilErr == [kind |-> "nil", count |-> 0]

\* The build has not returned yet.
NoReturn == [returned |-> FALSE, cluster |-> FALSE, err |-> NilErr]

\* Index in c.Nodes of the node named name, 0 if none (nodeMap[nodeName]).
NodeIndex(c, name) ==
    IF \E i \in DOMAIN c.Nodes : c.Nodes[i].Name = name
    THEN CHOOSE i \in DOMAIN c.Nodes :
             /\ c.Nodes[i].Name = name
             /\ \A j \in DOMAIN c.Nodes : c.Nodes[j].Name = name => j <= i
    ELSE 0

\* References <<node index, guest index>> to every guest, in node and list order.
AllRefs(c) ==
    Concat([n \in DOMAIN c.Nodes |->
               [j \in DOMAIN c.Nodes[n].VMs |-> <<n, j>>]])

VMAt(c, r) == c.Nodes[r[1]].VMs[r[2]]

\* ------------------------------------------- phase 1: basic cluster status

\* getClusterBasicStatus: the loop over the items of the response.
RECURSIVE getClusterBasicStatus(_, _)
getClusterBasicStatus(c, items) ==
    IF items = <<>> THEN c
    ELSE LET it == Head(items)
             c1 == IF it.type = "cluster"
                   THEN [c EXCEPT !.Name = it.name, !.TotalNodes = it.nodes]
                   ELSE IF it.type = "node"
                   THEN [c EXCEPT !.Nodes = Append(@, NewNode(it.name, it.online = 1))]
                   ELSE c
         IN getClusterBasicStatus(c1, Tail(items))

\* ----------------------------------------------- phase 2: node enrichment

\* Faulty variant of updateNodeMetrics: a failed request reports its error but
\* leaves the node online.
updateNodeMetrics_keepsOnline(node, ok) ==
    IF ~node.Online
    THEN [node |-> node, err |-> FALSE, did |-> "skipped"]
    ELSE IF ~ok
    THEN [node |-> node, err |-> TRUE, did |-> "failed"]
    ELSE [node |-> [node EXCEPT !.Version = "8.1", !.CPUCount = 4,
                                !.MemoryTotal = IF @ = 0 THEN 16 ELSE @,
                                !.MemoryUsed = IF @ = 0 THEN 8 ELSE @,
                                !.lastMetricsUpdate = 1],
          err |-> FALSE, did |-> "ok"]

\* Faulty variant of updateNodeMetrics: a successful fetch does not record the
\* time of the update.
updateNodeMetrics_noTimestamp(node, ok) ==
    IF ~node.Online
    THEN [node |-> node, err |-> FALSE, did |-> "skipped"]
    ELSE IF ~ok
    THEN [node |-> [node EXCEPT !.Online = FALSE], err |-> TRUE, did |-> "failed"]
    ELSE [node |-> [node EXCEPT !.Version = "8.1", !.CPUCount = 4,
                                !.MemoryTotal = IF @ = 0 THEN 16 ELSE @,
                                !.MemoryUsed = IF @ = 0 THEN 8 ELSE @],
          err |-> FALSE, did |-> "ok"]

\* updateNodeMetrics(node): an offline node is skipped without a request;
\* a failed request flips the node offline and returns an error; a successful
\* one merges the status. ok is the outcome of GET /nodes/{name}/status.
updateNodeMetrics(node, ok) ==
    IF ~node.Online
    THEN [node |-> node, err |-> FALSE, did |-> "skipped"]
    ELSE IF ~ok
    THEN [node |-> [node EXCEPT !.Online = FALSE], err |-> TRUE, did |-> "failed"]
    ELSE [node |-> [node EXCEPT !.Version = "8.1", !.CPUCount = 4,
                                !.MemoryTotal = IF @ = 0 THEN 16 ELSE @,
                                !.MemoryUsed = IF @ = 0 THEN 8 ELSE @,
                                !.lastMetricsUpdate = 1],
          err |-> FALSE, did |-> "ok"]

\* Faulty variant of the decision of enrichNodeStatuses: any node error fails
\* the phase.
enrichNodeStatusesFails_anyError(errs, n) == errs > 0

\* enrichNodeStatuses, after <-done: the error it returns (TRUE: non-nil),
\* given len(errors) and len(cluster.Nodes).
enrichNodeStatusesFails(errs, n) == errs > 0 /\ errs = n

\* -------------------------------------------- phase 3: cluster resources

\* StorageManager.AddStorage: a shared storage is kept once per storage id,
\* a non-shared one once per (node, storage id).
AddStorage(sm, st) ==
    IF st.Shared = 1
    THEN IF \E i \in DOMAIN sm.shared : sm.shared[i].ID = st.ID
         THEN sm
         ELSE [sm EXCEPT !.shared = Append(@, st)]
    ELSE [sm EXCEPT !.local = Append(SelectSeq(@, LAMBDA o : ~(o.ID = st.ID /\ o.Node = st.Node)), st)]

\* StorageManager.GetTotalCapacity
GetTotalCapacity(sm) ==
    SumSeq([i \in DOMAIN sm.shared |-> sm.shared[i].MaxDisk])
    + SumSeq([i \in DOMAIN sm.local |-> sm.local[i].MaxDisk])

\* processClusterResources: one record of the sweep.
\* getString(resource, key): "" if the record has no such key.
getString(r, key) == IF key \in DOMAIN r THEN r[key] ELSE ""

\* Faulty variant of processResource: the records of offline nodes are skipped.
processResource_skipsOffline(c, r) ==
    LET i == NodeIndex(c, r.node) IN
    IF i = 0 \/ ~c.Nodes[i].Online THEN c
    ELSE IF r.type \in {VMTypeQemu, VMTypeLXC}
    THEN [c EXCEPT !.Nodes[i].VMs = Append(@, [NewVM(r.vmid, r.node, r.type, r.status)
                                                EXCEPT !.IP = getString(r, "ip")])]
    ELSE c

processResource(c, r) ==
    LET i == NodeIndex(c, r.node) IN
    IF i = 0 THEN c
    ELSE IF r.type = "node"
    THEN [c EXCEPT !.Nodes[i] =
             [@ EXCEPT !.CPUUsage = IF r.cpu >= 0 THEN r.cpu ELSE @,
                       !.MemoryUsed = IF r.mem > 0 THEN r.mem ELSE @,
                       !.MemoryTotal = IF r.maxmem > 0 THEN r.maxmem ELSE @]]
    ELSE IF r.type = "storage"
    THEN LET st == [ID |-> r.id, Node |-> r.node, MaxDisk |-> r.maxdisk,
                    Shared |-> r.shared]
         IN [c EXCEPT !.Nodes[i].Storage = <<st>>,
                      !.StorageManager = AddStorage(@, st)]
    ELSE IF r.type \in {VMTypeQemu, VMTypeLXC}
    THEN [c EXCEPT !.Nodes[i].VMs = Append(@, [NewVM(r.vmid, r.node, r.type, r.status)
                                                EXCEPT !.IP = getString(r, "ip")])]
    ELSE c

\* processClusterResources: the single pass over the records of the response.
RECURSIVE processClusterResources(_, _)
processClusterResources(c, items) ==
    IF items = <<>> THEN c
    ELSE processClusterResources(processResource(c, Head(items)), Tail(items))

\* ------------------------------------------------------ phase 5: totals

\* calculateClusterTotals: the version of the first node that has one.
FirstVersion(c) ==
    IF \E i \in DOMAIN c.Nodes : c.Nodes[i].Version # ""
    THEN c.Nodes[CHOOSE i \in DOMAIN c.Nodes :
                     /\ c.Nodes[i].Version # ""
                     /\ \A j \in DOMAIN c.Nodes : c.Nodes[j].Version # "" => i <= j].Version
    ELSE c.Version

\* Faulty variant of calculateClusterTotals: the storage total is the sum of
\* the nodes' own storage records.
calculateClusterTotals_perNodeSum(c) ==
    [c EXCEPT
        !.OnlineNodes = Cardinality({i \in DOMAIN c.Nodes : c.Nodes[i].Online}),
        !.TotalCPU = SumSeq([i \in DOMAIN c.Nodes |->
                        IF c.Nodes[i].Online /\ c.Nodes[i].CPUCount > 0
                        THEN c.Nodes[i].CPUCount ELSE 0]),
        !.StorageTotal = SumSeq([i \in DOMAIN c.Nodes |->
                            SumSeq([k \in DOMAIN c.Nodes[i].Storage |->
                                       c.Nodes[i].Storage[k].MaxDisk])]),
        !.Version = FirstVersion(c)]

\* Faulty variant of calculateClusterTotals: every node of the list is counted
\* as online.
calculateClusterTotals_countsAll(c) ==
    [c EXCEPT
        !.OnlineNodes = Len(c.Nodes),
        !.TotalCPU = SumSeq([i \in DOMAIN c.Nodes |->
                        IF c.Nodes[i].Online /\ c.Nodes[i].CPUCount > 0
                        THEN c.Nodes[i].CPUCount ELSE 0]),
        !.StorageTotal = GetTotalCapacity(c.StorageManager),
        !.Version = FirstVersion(c)]

calculateClusterTotals(c) ==
    [c EXCEPT
        !.OnlineNodes = Cardinality({i \in DOMAIN c.Nodes : c.Nodes[i].Online}),
        !.TotalCPU = SumSeq([i \in DOMAIN c.Nodes |->
                        IF c.Nodes[i].Online /\ c.Nodes[i].CPUCount > 0
                        THEN c.Nodes[i].CPUCount ELSE 0]),
        !.StorageTotal = GetTotalCapacity(c.StorageManager),
        !.Version = FirstVersion(c)]

\* ------------------------------------------- phase 4: guest enrichment

\* What upstream can answer to the requests of one GetVmStatus call: ok is the
\* outcome of status/current, config that of the config request ("fail", or
\* the agent flag "off"/"on"), agent whether the interface query of the guest
\* (guest agent, or the LXC interface list) returns interfaces.
VmResponses ==
    {[ok |-> FALSE, config |-> "off", agent |-> "down"],
     [ok |-> TRUE, config |-> "fail", agent |-> "up"],
     [ok |-> TRUE, config |-> "off", agent |-> "down"],
     [ok |-> TRUE, config |-> "on", agent |-> "down"],
     [ok |-> TRUE, config |-> "on", agent |-> "up"]}

\* The answers of VmResponses and one more: the interface query returns
\* interfaces that are all filtered out (agent "filtered").
AllVmResponses ==
    VmResponses \cup {[ok |-> TRUE, config |-> "on", agent |-> "filtered"],
                      [ok |-> TRUE, config |-> "off", agent |-> "up"]}

\* The answers are chosen when a request is made.
NoFixed == [fixed |-> FALSE, node |-> <<>>, vm |-> <<>>]

\* The outcomes GET /nodes/{name}/status of node i can have.
NodeAnswers(i) == IF upFixed.fixed THEN {upFixed.node[i]} ELSE BOOLEAN

\* The answers the requests of a GetVmStatus call for guest id can get.
VmAnswers(id) == IF upFixed.fixed THEN {upFixed.vm[id]} ELSE upAnswers

\* Faulty variant of GetVmStatus: the agent is queried whether or not the
\* config enables it.
GetVmStatus_ignoresEnabled(vm, resp) ==
    IF ~resp.ok THEN [vm |-> vm, err |-> TRUE]
    ELSE
    LET enabled == IF resp.config = "fail" THEN vm.AgentEnabled
                   ELSE resp.config = "on"
        ifs == IF resp.agent = "up" THEN 1 ELSE 0
        v == IF vm.Type = VMTypeQemu /\ vm.Status = VMStatusRunning
             THEN IF resp.agent # "down"
                  THEN [vm EXCEPT !.AgentEnabled = enabled, !.AgentRunning = TRUE,
                                  !.NetInterfaces = ifs]
                  ELSE [vm EXCEPT !.AgentEnabled = enabled, !.AgentRunning = FALSE,
                                  !.NetInterfaces = 0]
             ELSE IF vm.Type = VMTypeLXC /\ vm.Status = VMStatusRunning
             THEN [vm EXCEPT !.NetInterfaces = ifs]
             ELSE vm
    IN [vm |-> [v EXCEPT !.Enriched = TRUE], err |-> FALSE]

\* Faulty variant of GetVmStatus: the guest is marked enriched only if the
\* config request succeeded.
GetVmStatus_enrichedWithConfig(vm, resp) ==
    IF ~resp.ok THEN [vm |-> vm, err |-> TRUE]
    ELSE
    LET enabled == IF resp.config = "fail" THEN vm.AgentEnabled
                   ELSE resp.config = "on"
        ifs == IF resp.agent = "up" THEN 1 ELSE 0
        v == IF vm.Type = VMTypeQemu /\ vm.Status = VMStatusRunning
             THEN IF enabled /\ resp.agent # "down"
                  THEN [vm EXCEPT !.AgentEnabled = enabled, !.AgentRunning = TRUE,
                                  !.NetInterfaces = ifs]
                  ELSE [vm EXCEPT !.AgentEnabled = enabled, !.AgentRunning = FALSE,
                                  !.NetInterfaces = 0]
             ELSE IF vm.Type = VMTypeLXC /\ vm.Status = VMStatusRunning
             THEN [vm EXCEPT !.NetInterfaces = ifs]
             ELSE vm
    IN [vm |-> [v EXCEPT !.Enriched = IF resp.config = "fail" THEN @ ELSE TRUE],
        err |-> FALSE]

\* GetVmStatus(vm): the guest after the call and whether it returned an error.
\* AgentRunning is set when the agent of a guest whose AgentEnabled is true
\* returns at least one interface; NetInterfaces is what the filter keeps.
GetVmStatus(vm, resp) ==
    IF ~resp.ok THEN [vm |-> vm, err |-> TRUE]
    ELSE
    LET enabled == IF resp.config = "fail" THEN vm.AgentEnabled
                   ELSE resp.config = "on"
        ifs == IF resp.agent = "up" THEN 1 ELSE 0
        v == IF vm.Type = VMTypeQemu /\ vm.Status = VMStatusRunning
             THEN IF enabled /\ resp.agent # "down"
                  THEN [vm EXCEPT !.AgentEnabled = enabled, !.AgentRunning = TRUE,
                                  !.NetInterfaces = ifs]
                  ELSE [vm EXCEPT !.AgentEnabled = enabled, !.AgentRunning = FALSE,
                                  !.NetInterfaces = 0]
             ELSE IF vm.Type = VMTypeLXC /\ vm.Status = VMStatusRunning
             THEN [vm EXCEPT !.NetInterfaces = ifs]
             ELSE vm
    IN [vm |-> [v EXCEPT !.Enriched = TRUE], err |-> FALSE]

\* EnrichVMs: totalVMs, the guests of the online nodes.
totalVMs(c) ==
    SumSeq([n \in DOMAIN c.Nodes |->
               IF c.Nodes[n].Online THEN Len(c.Nodes[n].VMs) ELSE 0])

\* Faulty variant of QueueOrder: every guest of every node is sent.
QueueOrder_everyGuest(c) == AllRefs(c)

\* EnrichVMs: the guests the queueing loop sends, in its order: the running
\* guests of the online nodes.
QueueOrder(c) ==
    SelectSeq(AllRefs(c),
              LAMBDA r : c.Nodes[r[1]].Online /\ VMAt(c, r).Status = VMStatusRunning)

\* Faulty variant of the decision of EnrichVMs: a single error is dropped.
EnrichVMsFails_two(errs) == errs > 1

\* EnrichVMs: the error it returns (TRUE: non-nil), given len(errors).
EnrichVMsFails(errs) == errs > 0

\* make(chan *VM, 100)
VmChanCap == 100

\* Faulty variant of the worker loop: one worker too many (i <= max).
Workers_oneMore == 1..(maxConcurrentRequests + 1)

\* for i := 0; i < maxConcurrentRequests; i++ { go func() {...}() }
Workers == 1..maxConcurrentRequests

IdleWorker == [st |-> "idle", vm |-> <<0, 0>>]
OffWorker == [st |-> "off", vm |-> <<0, 0>>]

\* The workers that are inside GetVmStatus.
Busy == {w \in Workers : worker[w].st = "busy"}

\* EnrichVMs up to the start of the workers; with no guest it returns nil at once.
EnrichStart ==
    /\ enrichPc = "call"
    /\ IF totalVMs(cluster) = 0
       THEN /\ enrichPc' = "returned"
            /\ enrichErr' = FALSE
            /\ UNCHANGED <<toQueue, vmChan, worker, vmErrs>>
       ELSE /\ enrichPc' = "queue"
            /\ toQueue' = QueueOrder(cluster)
            /\ vmChan' = <<>>
            /\ worker' = [w \in Workers |-> IdleWorker]
            /\ vmErrs' = 0
            /\ UNCHANGED enrichErr
    /\ UNCHANGED <<upVars, appVars, net, cfg, ui, cacheVars, refreshPc, buildVars, cluster, calls, bgVars>>

\* vmChan <- node.VMs[i]
QueueVM ==
    /\ enrichPc = "queue"
    /\ toQueue # <<>>
    /\ Len(vmChan) < VmChanCap
    /\ vmChan' = Append(vmChan, Head(toQueue))
    /\ toQueue' = Tail(toQueue)
    /\ UNCHANGED <<upVars, appVars, net, cfg, ui, cacheVars, refreshPc, buildVars, cluster, calls, bgVars,
                   enrichPc, worker, vmErrs, enrichErr>>

\* close(vmChan); the caller then waits in wg.Wait()
CloseVmChan ==
    /\ enrichPc = "queue"
    /\ toQueue = <<>>
    /\ enrichPc' = "wait"
    /\ UNCHANGED <<upVars, appVars, net, cfg, ui, cacheVars, refreshPc, buildVars, cluster, calls, bgVars,
                   toQueue, vmChan, worker, vmErrs, enrichErr>>

\* A worker receives the next guest: for vm := range vmChan
WorkerReceive(w) ==
    /\ enrichPc \in {"queue", "wait"}
    /\ worker[w].st = "idle"
    /\ vmChan # <<>>
    /\ worker' = [worker EXCEPT ![w] = [st |-> "busy", vm |-> Head(vmChan)]]
    /\ vmChan' = Tail(vmChan)
    /\ UNCHANGED <<upVars, appVars, net, cfg, ui, cacheVars, refreshPc, buildVars, cluster, calls, bgVars,
                   enrichPc, toQueue, vmErrs, enrichErr>>

\* Faulty variant of WorkerGetVmStatus: a call made after another call has
\* failed fails as well.
WorkerGetVmStatus_failsAfterError(w) ==
    /\ worker[w].st = "busy"
    /\ \E resp \in VmAnswers(VMAt(cluster, worker[w].vm).ID) :
         LET r == worker[w].vm
             res == GetVmStatus(VMAt(cluster, r), [resp EXCEPT !.ok = @ /\ vmErrs = 0])
         IN /\ cluster' = [cluster EXCEPT !.Nodes[r[1]].VMs[r[2]] = res.vm]
            /\ vmErrs' = IF res.err THEN vmErrs + 1 ELSE vmErrs
            /\ calls' = [calls EXCEPT ![res.vm.ID] = @ + 1]
    /\ worker' = [worker EXCEPT ![w] = IdleWorker]
    /\ UNCHANGED <<upVars, appVars, net, cfg, ui, cacheVars, refreshPc, buildVars, bgVars,
                   enrichPc, toQueue, vmChan, enrichErr>>

\* The worker's call c.GetVmStatus(vm) and errChan <- err, which the collector
\* appends to errors when it is non-nil.
WorkerGetVmStatus(w) ==
    /\ worker[w].st = "busy"
    /\ \E resp \in VmAnswers(VMAt(cluster, worker[w].vm).ID) :
         LET r == worker[w].vm
             res == GetVmStatus(VMAt(cluster, r), resp)
         IN /\ cluster' = [cluster EXCEPT !.Nodes[r[1]].VMs[r[2]] = res.vm]
            /\ vmErrs' = IF res.err THEN vmErrs + 1 ELSE vmErrs
            /\ calls' = [calls EXCEPT ![res.vm.ID] = @ + 1]
    /\ worker' = [worker EXCEPT ![w] = IdleWorker]
    /\ UNCHANGED <<upVars, appVars, net, cfg, ui, cacheVars, refreshPc, buildVars, bgVars,
                   enrichPc, toQueue, vmChan, enrichErr>>

\* wg.Wait() returns once every worker has left its loop (the channel is closed
\* and drained); close(errChan); <-done; the composite error.
EnrichReturn ==
    /\ enrichPc = "wait"
    /\ vmChan = <<>>
    /\ \A w \in Workers : worker[w].st = "idle"
    /\ enrichErr' = EnrichVMsFails(vmErrs)
    /\ enrichPc' = "returned"
    /\ worker' = [w \in Workers |-> OffWorker]
    /\ UNCHANGED <<upVars, appVars, net, cfg, ui, cacheVars, refreshPc, buildVars, cluster, calls, bgVars,
                   toQueue, vmChan, vmErrs>>

\* ------------------------------------------------- the snapshot build

\* return nil, err: kind is the error's message, count the number it carries.
Failed(kind, count) ==
    [returned |-> TRUE, cluster |-> FALSE, err |-> [kind |-> kind, count |-> count]]

\* return cluster, nil: the last statement of GetClusterStatus and of
\* FastGetClusterStatus; enrichFailed is the error of EnrichVMs, which the slow
\* build only logs.
Returned(enrichFailed) == [returned |-> TRUE, cluster |-> TRUE, err |-> NilErr]

\* Phase 1 of both builds: c.getClusterBasicStatus(cluster)
BasicStatus ==
    /\ pc = "p1"
    /\ \E ok \in BOOLEAN :
         IF ok
         THEN /\ cluster' = getClusterBasicStatus(cluster, upStatus)
              /\ nodeTask' = [i \in DOMAIN cluster'.Nodes |-> "idle"]
              /\ pc' = "p2"
              /\ UNCHANGED ret
         ELSE /\ ret' = Failed("cluster status", 0)
              /\ pc' = "done"
              /\ UNCHANGED <<cluster, nodeTask>>
    /\ UNCHANGED <<upVars, appVars, net, cfg, ui, cacheVars, refreshPc, fast, hasCallback, nodeErrs, calls, enrichVars, bgVars>>

\* Phase 2: the goroutine of node i runs updateNodeMetrics and sends its error.
UpdateNodeMetrics(i) ==
    /\ pc = "p2"
    /\ i \in DOMAIN nodeTask
    /\ nodeTask[i] = "idle"
    /\ \E ok \in NodeAnswers(i) :
         LET res == updateNodeMetrics(cluster.Nodes[i], ok)
         IN /\ cluster' = [cluster EXCEPT !.Nodes[i] = res.node]
            /\ nodeTask' = [nodeTask EXCEPT ![i] = res.did]
            /\ nodeErrs' = IF res.err THEN nodeErrs + 1 ELSE nodeErrs
    /\ UNCHANGED <<upVars, appVars, net, cfg, ui, cacheVars, refreshPc, fast, hasCallback, pc, ret, calls, enrichVars, bgVars>>

\* Faulty variant of NodeStatusesDone: the decision is taken without waiting
\* for the goroutines of the nodes.
NodeStatusesDone_noWait ==
    /\ pc = "p2"
    /\ IF enrichNodeStatusesFails(nodeErrs, Len(cluster.Nodes))
       THEN /\ ret' = Failed("all nodes unreachable", nodeErrs)
            /\ pc' = "done"
       ELSE /\ pc' = "p3"
            /\ UNCHANGED ret
    /\ UNCHANGED <<upVars, appVars, net, cfg, ui, cacheVars, refreshPc, fast, hasCallback, cluster, nodeTask, nodeErrs, calls,
                   enrichVars, bgVars>>

\* Phase 2: wg.Wait(), <-done and the decision of enrichNodeStatuses.
NodeStatusesDone ==
    /\ pc = "p2"
    /\ \A i \in DOMAIN nodeTask : nodeTask[i] # "idle"
    /\ IF enrichNodeStatusesFails(nodeErrs, Len(cluster.Nodes))
       THEN /\ ret' = Failed("all nodes unreachable", nodeErrs)
            /\ pc' = "done"
       ELSE /\ pc' = "p3"
            /\ UNCHANGED ret
    /\ UNCHANGED <<upVars, appVars, net, cfg, ui, cacheVars, refreshPc, fast, hasCallback, cluster, nodeTask, nodeErrs, calls,
                   enrichVars, bgVars>>

\* Phase 3: c.processClusterResources(cluster). The slow build then calls
\* EnrichVMs, the fast build goes on to the totals.
ClusterResources ==
    /\ pc = "p3"
    /\ \E ok \in BOOLEAN :
         IF ok
         THEN /\ cluster' = processClusterResources(cluster, upResources)
              /\ pc' = IF fast THEN "p5" ELSE "p4"
              /\ enrichPc' = IF fast THEN enrichPc ELSE "call"
              /\ UNCHANGED ret
         ELSE /\ ret' = Failed("cluster resources", 0)
              /\ pc' = "done"
              /\ UNCHANGED <<cluster, enrichPc>>
    /\ UNCHANGED <<upVars, appVars, net, cfg, ui, cacheVars, refreshPc, fast, hasCallback, nodeTask, nodeErrs, calls, bgVars,
                   toQueue, vmChan, worker, vmErrs, enrichErr>>

\* Faulty variant of Totals: the slow build does not wait for EnrichVMs.
Totals_beforeEnrichment ==
    /\ IF fast THEN pc = "p5" ELSE pc = "p4"
    /\ cluster' = calculateClusterTotals(cluster)
    /\ pc' = "return"
    /\ bgPc' = IF fast THEN "start" ELSE bgPc
    /\ UNCHANGED <<upVars, appVars, net, cfg, ui, cacheVars, refreshPc, fast, hasCallback, nodeTask, nodeErrs, ret, calls,
                   enrichVars, retryLeft, cbCount>>

\* c.calculateClusterTotals(cluster) and c.Cluster = cluster; the slow build
\* gets here when EnrichVMs has returned (its error is logged), the fast build
\* starts its background goroutine here.
Totals ==
    /\ IF fast THEN pc = "p5" ELSE pc = "p4" /\ enrichPc = "returned"
    /\ cluster' = calculateClusterTotals(cluster)
    /\ pc' = "return"
    /\ bgPc' = IF fast THEN "start" ELSE bgPc
    /\ UNCHANGED <<upVars, appVars, net, cfg, ui, cacheVars, refreshPc, fast, hasCallback, nodeTask, nodeErrs, ret, calls,
                   enrichVars, retryLeft, cbCount>>

\* return cluster, nil
Return ==
    /\ pc = "return"
    /\ ret' = Returned(enrichErr)
    /\ pc' = "done"
    /\ UNCHANGED <<upVars, appVars, net, cfg, ui, cacheVars, refreshPc, fast, hasCallback, cluster, nodeTask, nodeErrs, calls,
                   enrichVars, bgVars>>

\* ------------------------- the background goroutine of a fast build

\* Faulty variant of NeedsRetry: every running guest is enriched again.
NeedsRetry_everyRunning(vm) == vm.Status = VMStatusRunning

\* The retry condition of the second pass.
NeedsRetry(vm) ==
    /\ vm.Status = VMStatusRunning
    /\ vm.Type = VMTypeQemu
    /\ vm.AgentEnabled
    /\ (~vm.AgentRunning \/ vm.NetInterfaces = 0)

\* The guests the retry loops visit: those of the online nodes.
RetryOrder(c) == SelectSeq(AllRefs(c), LAMBDA r : c.Nodes[r[1]].Online)

\* c.EnrichVMs(cluster) is called
BgEnrich ==
    /\ bgPc = "start"
    /\ bgPc' = "enrich"
    /\ enrichPc' = "call"
    /\ UNCHANGED <<upVars, appVars, net, cfg, ui, cacheVars, refreshPc, buildVars, cluster, calls, retryLeft, cbCount,
                   toQueue, vmChan, worker, vmErrs, enrichErr>>

\* Faulty variant of BgSleep: the callback is also invoked after the first pass.
BgSleep_firesCallback ==
    /\ bgPc = "enrich"
    /\ enrichPc = "returned"
    /\ bgPc' = "retry"
    /\ retryLeft' = RetryOrder(cluster)
    /\ cbCount' = IF hasCallback THEN cbCount + 1 ELSE cbCount
    /\ UNCHANGED <<upVars, appVars, net, cfg, ui, cacheVars, refreshPc, buildVars, cluster, calls, enrichVars>>

\* EnrichVMs has returned (its error is logged); time.Sleep(3 * time.Second)
BgSleep ==
    /\ bgPc = "enrich"
    /\ enrichPc = "returned"
    /\ bgPc' = "retry"
    /\ retryLeft' = RetryOrder(cluster)
    /\ UNCHANGED <<upVars, appVars, net, cfg, ui, cacheVars, refreshPc, buildVars, cluster, calls, cbCount, enrichVars>>

\* One iteration of the retry loops: the guest is enriched again if it needs it
\* (an error is logged).
BgRetry ==
    /\ bgPc = "retry"
    /\ retryLeft # <<>>
    /\ LET r == Head(retryLeft)
           vm == VMAt(cluster, r)
       IN IF NeedsRetry(vm)
          THEN \E resp \in VmAnswers(vm.ID) :
                 /\ cluster' = [cluster EXCEPT !.Nodes[r[1]].VMs[r[2]] =
                                                GetVmStatus(vm, resp).vm]
                 /\ calls' = [calls EXCEPT ![vm.ID] = @ + 1]
          ELSE UNCHANGED <<cluster, calls>>
    /\ retryLeft' = Tail(retryLeft)
    /\ UNCHANGED <<upVars, appVars, net, cfg, ui, cacheVars, refreshPc, buildVars, bgPc, cbCount, enrichVars>>

\* if onEnrichmentComplete != nil { onEnrichmentComplete() }
BgCallback ==
    /\ bgPc = "retry"
    /\ retryLeft = <<>>
    /\ cbCount' = IF hasCallback THEN cbCount + 1 ELSE cbCount
    /\ bgPc' = "done"
    /\ UNCHANGED <<upVars, appVars, net, cfg, ui, cacheVars, refreshPc, buildVars, cluster, calls, retryLeft, enrichVars>>

\* ------------------------------------------------- the response cache

\* TTLs of the cached endpoints, in seconds.
ClusterDataTTL == 10
ResourceDataTTL == 10
VMDataTTL == 5

\* The request paths of the model and the TTL their call sites pass.
StatusPath == "/cluster/status"
ResourcesPath == "/cluster/resources"
VmStatusPath == "/nodes/a/qemu/100/status/current"
VmConfigPath == "/nodes/a/qemu/100/config"

Paths == {StatusPath, ResourcesPath, VmStatusPath}

\* The paths of the two cached requests of GetVmStatus.
VmPaths == {VmStatusPath, VmConfigPath}

TTLOf(path) ==
    IF path = StatusPath THEN ClusterDataTTL
    ELSE IF path = ResourcesPath THEN ResourceDataTTL
    ELSE VMDataTTL

NoEntry == [present |-> FALSE, storedAt |-> 0]

EmptyCache == [p \in Paths \cup VmPaths |-> NoEntry]

\* Faulty variant of GetWithCache: an entry is still used at age ttl.
GetWithCache_inclusive(c, path, ttl, bypass, t, ok) ==
    LET e == c[path]
        hit == e.present /\ t - e.storedAt <= ttl /\ ~bypass
    IN IF hit THEN [cache |-> c, live |-> FALSE, err |-> FALSE]
       ELSE IF ok
       THEN [cache |-> [c EXCEPT ![path] = [present |-> TRUE, storedAt |-> t]],
             live |-> TRUE, err |-> FALSE]
       ELSE [cache |-> c, live |-> TRUE, err |-> TRUE]

\* Get(path, out, ttl) of the response cache, at time t: the cache after the
\* call, whether a live request was issued and whether the call returned an
\* error; ok is the outcome of the live request, if one is issued.
GetWithCache(c, path, ttl, bypass, t, ok) ==
    LET e == c[path]
        hit == e.present /\ t - e.storedAt < ttl /\ ~bypass
    IN IF hit THEN [cache |-> c, live |-> FALSE, err |-> FALSE]
       ELSE IF ok
       THEN [cache |-> [c EXCEPT ![path] = [present |-> TRUE, storedAt |-> t]],
             live |-> TRUE, err |-> FALSE]
       ELSE [cache |-> c, live |-> TRUE, err |-> TRUE]

\* No request has been made through the cache yet.
NoGet == [by |-> "none", path |-> StatusPath, bypass |-> FALSE, pre |-> NoEntry,
          at |-> 0, live |-> FALSE, err |-> FALSE]

\* The record of a request: who made it, its path and flag, the entry and the
\* clock it found, and what GetWithCache did.
GetRecord(by, path, bypass, res) ==
    [by |-> by, path |-> path, bypass |-> bypass, pre |-> cache[path],
     at |-> now, live |-> res.live, err |-> res.err]

\* Seconds between two readings of the clock: the shortest TTL.
TickSeconds == VMDataTTL

\* Time passes.
Tick ==
    /\ now + TickSeconds <= MaxTime
    /\ now' = now + TickSeconds
    /\ UNCHANGED <<upVars, appVars, net, cfg, ui, buildVars, cluster, calls, enrichVars, bgVars,
                   cache, lastGet, refreshPc>>

\* A request of a background pass: the call sites pass no bypass flag.
BackgroundBypass == FALSE

BackgroundGet(path) ==
    /\ \E ok \in BOOLEAN :
         LET res == GetWithCache(cache, path, TTLOf(path), BackgroundBypass, now, ok)
         IN /\ cache' = res.cache
            /\ lastGet' = GetRecord("background", path, BackgroundBypass, res)
    /\ UNCHANGED <<upVars, appVars, net, cfg, ui, buildVars, cluster, calls, enrichVars, bgVars,
                   now, refreshPc>>

\* One second passes.
TickOne ==
    /\ now + 1 <= MaxTime
    /\ now' = now + 1
    /\ UNCHANGED <<upVars, appVars, net, cfg, ui, buildVars, cluster, calls, enrichVars, bgVars,
                   cache, lastGet, refreshPc>>

\* The status/current request of a GetVmStatus call and, when it succeeds, the
\* config request, both through the cache; lastGet is the last request made.
GetVmStatusRequests ==
    /\ \E okStatus \in BOOLEAN, okConfig \in BOOLEAN :
         LET st == GetWithCache(cache, VmStatusPath, TTLOf(VmStatusPath),
                                BackgroundBypass, now, okStatus)
             cf == GetWithCache(st.cache, VmConfigPath, TTLOf(VmConfigPath),
                                BackgroundBypass, now, okConfig)
         IN IF st.err
            THEN /\ cache' = st.cache
                 /\ lastGet' = GetRecord("vm", VmStatusPath, BackgroundBypass, st)
            ELSE /\ cache' = cf.cache
                 /\ lastGet' = GetRecord("vm", VmConfigPath, BackgroundBypass, cf)
    /\ UNCHANGED <<upVars, appVars, net, cfg, ui, buildVars, cluster, calls, enrichVars, bgVars,
                   now, refreshPc>>

\* ------------------------------------------------- the refresh handler

RefreshIds == 1..MaxRefresh

\* The refresh goroutines that are inside GetFreshClusterStatus.
RunningRefresh == {k \in RefreshIds : refreshPc[k] \in {"status", "resources"}}

\* ---------------------------------------------------------- lists of the UI

\* The characters of the display texts the models use, and strings.ToLower
\* on them.
ToLower(ch) == IF ch = "A" THEN "a" ELSE IF ch = "B" THEN "b" ELSE ch

TextLower(text) == [i \in DOMAIN text |-> ToLower(text[i])]

\* strings.Contains(strings.ToLower(text), strings.ToLower(q))
ContainsFold(text, q) ==
    \E i \in 1..(Len(text) - Len(q) + 1) :
        SubSeq(TextLower(text), i, i + Len(q) - 1) = TextLower(q)

\* models.FilterNodes / models.FilterVMs: the entries of the original list
\* whose display text contains the filter, in the order of the original list.
FilterNodes(nodes, q) == SelectSeq(nodes, LAMBDA n : ContainsFold(<<n.Name>>, q))

FilterVMs(vms, q) == SelectSeq(vms, LAMBDA v : ContainsFold(v.Name, q))

\* The identity (node, id) of a guest of the lists, and "no guest".
NoVM == <<"", 0>>

VMKey(v) == <<v.Node, v.ID>>

\* sort.Slice of SetVMs: running guests first, then by ID.
VMLess(x, y) ==
    IF (x.Status = VMStatusRunning) # (y.Status = VMStatusRunning)
    THEN x.Status = VMStatusRunning
    ELSE x.ID < y.ID

RECURSIVE InsertVM(_, _)
InsertVM(v, s) ==
    IF s = <<>> THEN <<v>>
    ELSE IF VMLess(v, Head(s)) THEN <<v>> \o s
    ELSE <<Head(s)>> \o InsertVM(v, Tail(s))

\* Faulty variant of the sort of SetVMs: the list is shown in the order given.
SortVMs_unsorted(vms) == vms

RECURSIVE SortVMs(_)
SortVMs(vms) ==
    IF vms = <<>> THEN <<>> ELSE InsertVM(Head(vms), SortVMs(Tail(vms)))

\* VMList.SetVMs: shows the sorted copy and selects the first item.
SetVMs(u, vms) == [u EXCEPT !.shownVMs = SortVMs(vms), !.vmIndex = 0]

\* NodeList.SetNodes: shows the list as given and selects the first item.
SetNodes(u, nodes) == [u EXCEPT !.shownNodes = nodes, !.nodeIndex = 0]

\* VMList.GetSelectedVM / NodeList.GetSelectedNode: the entry at the current
\* item of the list, nil if there is none.
GetSelectedVM(u) ==
    IF u.vmIndex < Len(u.shownVMs) THEN VMKey(u.shownVMs[u.vmIndex + 1]) ELSE NoVM

GetSelectedNode(u) ==
    IF u.nodeIndex < Len(u.shownNodes) THEN u.shownNodes[u.nodeIndex + 1].Name ELSE ""

\* What manualRefresh stores before it starts its goroutine: the current
\* item of each list (with the entries they select, for the properties).
NoSaved == [node |-> 0, vm |-> 0, selNode |-> "", selVM |-> NoVM]

Saved(u) ==
    [node |-> u.nodeIndex, vm |-> u.vmIndex,
     selNode |-> GetSelectedNode(u), selVM |-> GetSelectedVM(u)]

\* The cluster the goroutine of a refresh got: its nodes in the order of
\* /cluster/status and, as manualRefresh collects them, the guests node by
\* node.
NoFetched == [nodes |-> <<>>, vms |-> <<>>]

UiNode(item) == [Name |-> item.name, Online |-> item.online = 1]

UiVM(item) ==
    [ID |-> item.vmid, Node |-> item.node, Name |-> item.name, Status |-> item.status]

IsGuestItem(item) == item.type \in {VMTypeQemu, VMTypeLXC}

RECURSIVE CollectVMs(_, _)
CollectVMs(nodes, resources) ==
    IF nodes = <<>> THEN <<>>
    ELSE LET mine(item) == IsGuestItem(item) /\ item.node = Head(nodes).Name
             items == SelectSeq(resources, mine)
         IN [i \in DOMAIN items |-> UiVM(items[i])] \o CollectVMs(Tail(nodes), resources)

Fetched(status, resources) ==
    LET isNode(item) == item.type = "node"
        items == SelectSeq(status, isNode)
        nodes == [i \in DOMAIN items |-> UiNode(items[i])]
    IN [nodes |-> nodes, vms |-> CollectVMs(nodes, resources)]

\* What the last applied refresh did to the selections: the entries selected
\* when it was requested, the stored indices, and the entries selected when
\* its draw function returned.
NoLast ==
    [selNode |-> "", selVM |-> NoVM, node |-> 0, vm |-> 0,
     nowNode |-> "", nowVM |-> NoVM]

\* The lists before the first cluster was loaded.
EmptyUi ==
    [origNodes |-> <<>>, filtNodes |-> <<>>, nodeFilter |-> <<>>,
     shownNodes |-> <<>>, nodeIndex |-> 0,
     origVMs |-> <<>>, filtVMs |-> <<>>, vmFilter |-> <<>>,
     shownVMs |-> <<>>, vmIndex |-> 0,
     saved |-> [k \in RefreshIds |-> NoSaved],
     fetched |-> [k \in RefreshIds |-> NoFetched],
     last |-> NoLast]

\* Faulty variant of the draw function of manualRefresh: the fresh lists are
\* shown whole although a filter is active.
DrawRefresh_ignoresFilter(u, f, s) ==
    LET u1 == [u EXCEPT !.origNodes = f.nodes, !.filtNodes = f.nodes,
                        !.origVMs = f.vms, !.filtVMs = f.vms]
        u2 == SetNodes(u1, u1.origNodes)
        u3 == SetVMs(u2, u2.origVMs)
        u4 == IF s.node < Len(u3.filtNodes) THEN [u3 EXCEPT !.nodeIndex = s.node] ELSE u3
        u5 == IF s.vm < Len(u4.filtVMs) THEN [u4 EXCEPT !.vmIndex = s.vm] ELSE u4
    IN [u5 EXCEPT !.last = [selNode |-> s.selNode, selVM |-> s.selVM,
                            node |-> s.node, vm |-> s.vm,
                            nowNode |-> GetSelectedNode(u5),
                            nowVM |-> GetSelectedVM(u5)]]

\* The draw function of manualRefresh on success: the fresh lists replace
\* the original and the filtered lists of the global state, an active filter
\* is applied again, the lists are shown, and the stored indices are made
\* the current items where they are in range.
DrawRefresh(u, f, s) ==
    LET u1 == [u EXCEPT !.origNodes = f.nodes, !.filtNodes = f.nodes,
                        !.origVMs = f.vms, !.filtVMs = f.vms]
        n2 == IF u.nodeFilter # <<>>
              THEN [u1 EXCEPT !.filtNodes = FilterNodes(u1.origNodes, u.nodeFilter)]
              ELSE u1
        u2 == SetNodes(n2, IF u.nodeFilter # <<>> THEN n2.filtNodes ELSE n2.origNodes)
        v3 == IF u.vmFilter # <<>>
              THEN [u2 EXCEPT !.filtVMs = FilterVMs(u2.origVMs, u.vmFilter)]
              ELSE u2
        u3 == SetVMs(v3, IF u.vmFilter # <<>> THEN v3.filtVMs ELSE v3.origVMs)
        u4 == IF s.node < Len(u3.filtNodes) THEN [u3 EXCEPT !.nodeIndex = s.node] ELSE u3
        u5 == IF s.vm < Len(u4.filtVMs) THEN [u4 EXCEPT !.vmIndex = s.vm] ELSE u4
    IN [u5 EXCEPT !.last = [selNode |-> s.selNode, selVM |-> s.selVM,
                            node |-> s.node, vm |-> s.vm,
                            nowNode |-> GetSelectedNode(u5),
                            nowVM |-> GetSelectedVM(u5)]]

\* Faulty variant of manualRefresh: a request made while a refresh build is
\* running is dropped.
ManualRefresh_coalesced ==
    /\ RunningRefresh = {}
    /\ \E k \in RefreshIds :
         /\ refreshPc[k] = "none"
         /\ \A j \in RefreshIds : j < k => refreshPc[j] # "none"
         /\ refreshPc' = [refreshPc EXCEPT ![k] = "status"]
         /\ ui' = [ui EXCEPT !.saved[k] = Saved(ui)]
    /\ UNCHANGED <<upVars, appVars, net, cfg, buildVars, cluster, calls, enrichVars, bgVars, cacheVars>>

\* manualRefresh(): shows the loading indicator, starts the goroutine of the
\* refresh and returns.
ManualRefresh ==
    /\ \E k \in RefreshIds :
         /\ refreshPc[k] = "none"
         /\ \A j \in RefreshIds : j < k => refreshPc[j] # "none"
         /\ refreshPc' = [refreshPc EXCEPT ![k] = "status"]
         /\ ui' = [ui EXCEPT !.saved[k] = Saved(ui)]
    /\ UNCHANGED <<upVars, appVars, net, cfg, buildVars, cluster, calls, enrichVars, bgVars, cacheVars>>

\* The flag GetFreshClusterStatus sets on the requests of its build. A variant
\* that leaves it clear:
FreshBypass_clear == FALSE

FreshBypass == TRUE

\* Faulty variant of RefreshRequest: the goroutine shows the new lists itself.
RefreshRequest_writesLists(k) ==
    /\ refreshPc[k] \in {"status", "resources"}
    /\ \E ok \in BOOLEAN :
         LET path == IF refreshPc[k] = "status" THEN StatusPath ELSE ResourcesPath
             res == GetWithCache(cache, path, TTLOf(path), FreshBypass, now, ok)
         IN /\ cache' = res.cache
            /\ lastGet' = GetRecord("refresh", path, FreshBypass, res)
            /\ refreshPc' = [refreshPc EXCEPT ![k] =
                                IF res.err THEN "failed"
                                ELSE IF refreshPc[k] = "status" THEN "resources"
                                ELSE "done"]
            /\ ui' = IF ~res.err /\ refreshPc[k] = "resources"
                     THEN DrawRefresh(ui, Fetched(upStatus, upResources), ui.saved[k])
                     ELSE ui
    /\ UNCHANGED <<upVars, appVars, net, cfg, buildVars, cluster, calls, enrichVars, bgVars, now>>

\* GetFreshClusterStatus, one request of its build: /cluster/status, then
\* /cluster/resources; a failed request ends the build with an error.
RefreshRequest(k) ==
    /\ refreshPc[k] \in {"status", "resources"}
    /\ \E ok \in BOOLEAN :
         LET path == IF refreshPc[k] = "status" THEN StatusPath ELSE ResourcesPath
             res == GetWithCache(cache, path, TTLOf(path), FreshBypass, now, ok)
         IN /\ cache' = res.cache
            /\ lastGet' = GetRecord("refresh", path, FreshBypass, res)
            /\ refreshPc' = [refreshPc EXCEPT ![k] =
                                IF res.err THEN "failed"
                                ELSE IF refreshPc[k] = "status" THEN "resources"
                                ELSE "queued"]
            /\ ui' = IF ~res.err /\ refreshPc[k] = "resources"
                     THEN [ui EXCEPT !.fetched[k] = Fetched(upStatus, upResources)]
                     ELSE ui
    /\ UNCHANGED <<upVars, appVars, net, cfg, buildVars, cluster, calls, enrichVars, bgVars, now>>

\* The function the goroutine queued with QueueUpdateDraw runs on the UI
\* thread: it shows the error, or the new lists and the success message.
RefreshDraw(k) ==
    /\ refreshPc[k] \in {"queued", "failed"}
    /\ refreshPc' = [refreshPc EXCEPT ![k] = "done"]
    /\ ui' = IF refreshPc[k] = "queued"
             THEN DrawRefresh(ui, ui.fetched[k], ui.saved[k])
             ELSE ui
    /\ UNCHANGED <<upVars, appVars, net, cfg, buildVars, cluster, calls, enrichVars, bgVars, cacheVars>>

\* ------------------------------------------- interfaces and IP of a guest

\* IP address types (constants.go).
IPTypeIPv4 == "ipv4"

IPTypeIPv6 == "ipv6"

\* The MAC strings of the models, and strings.ToUpper on them.
MacA == "AA:BB:CC:DD:EE:FF"

MacD == "DE:AD:BE:EF:00:01"

ToUpper(s) ==
    IF s = "aa:bb:cc:dd:ee:ff" THEN MacA
    ELSE IF s = "de:ad:be:ef:00:01" THEN MacD
    ELSE s

\* len(s) == 17 && strings.Count(s, ":") == 5
MacShaped(s) == ToUpper(s) \in {MacA, MacD}

\* strings.HasPrefix(name, "veth") on the interface names of the models.
HasVethPrefix(name) == name \in {"veth0", "veth1"}

\* net.ParseIP on the address strings of the models.
ValidIPs == {"10.0.0.5", "192.168.1.7", "fe80::1", "2001:db8::1"}

ParseIP(s) == s \in ValidIPs

\* isValidIP
isValidIP(ip) ==
    /\ ip \notin {"", "dhcp", "manual", "static"}
    /\ ParseIP(ip)

\* The value of an ip= part with its subnet mask removed.
StripMask(s) ==
    IF s = "10.0.0.5/24" THEN "10.0.0.5"
    ELSE IF s = "fe80::1/64" THEN "fe80::1"
    ELSE s

\* A nil map of configured MACs, and the map make() returns.
NilMACs == [isNil |-> TRUE, set |-> {}]

MakeMACs(set) == [isNil |-> FALSE, set |-> set]

\* populateConfiguredMACs: the MAC a part of a netN string gives, "" if none.
PartMAC(part) ==
    IF part.key = "hwaddr" THEN ToUpper(part.val)
    ELSE IF MacShaped(part.val) THEN ToUpper(part.val)
    ELSE ""

RECURSIVE FirstMAC(_)
FirstMAC(parts) ==
    IF parts = <<>> THEN ""
    ELSE IF PartMAC(Head(parts)) # "" /\ MacShaped(PartMAC(Head(parts)))
         THEN PartMAC(Head(parts))
         ELSE FirstMAC(Tail(parts))

\* populateConfiguredMACs: a new map with the first MAC of every netN entry.
populateConfiguredMACs(config) ==
    MakeMACs({FirstMAC(config.nets[i]) : i \in DOMAIN config.nets} \ {""})

\* GetDetailedVmInfo: the first valid ip= value of a netN string, "" if none.
RECURSIVE FirstIP(_)
FirstIP(parts) ==
    IF parts = <<>> THEN ""
    ELSE IF Head(parts).key = "ip" /\ isValidIP(StripMask(Head(parts).val))
         THEN StripMask(Head(parts).val)
         ELSE FirstIP(Tail(parts))

\* GetDetailedVmInfo: the values the loop over the config map can leave in
\* vm.IP (the order of the map is not fixed).
ConfigIPs(config) ==
    LET found == {FirstIP(config.nets[i]) : i \in DOMAIN config.nets} \ {""}
    IN IF found = {} THEN {""} ELSE found

\* The guest GetVmStatus and GetDetailedVmInfo work on, with its interfaces.
NetVM(type, ip) ==
    [Type |-> type, Status |-> VMStatusRunning, IP |-> ip,
     ConfiguredMACs |-> NilMACs, AgentEnabled |-> FALSE, AgentRunning |-> FALSE,
     NetInterfaces |-> <<>>, Enriched |-> FALSE]

\* GetDetailedVmInfo, after both requests succeeded.
GetDetailedVmInfo(type, config, ip) ==
    [NetVM(type, ip) EXCEPT
        !.AgentEnabled = IF config.agent = "absent" THEN @ ELSE config.agent = "on",
        !.ConfiguredMACs = populateConfiguredMACs(config),
        !.Enriched = TRUE]

\* The first address of the type in the list, as a list of at most one.
RECURSIVE FirstOfType(_, _)
FirstOfType(addrs, type) ==
    IF addrs = <<>> THEN <<>>
    ELSE IF Head(addrs).Type = type THEN <<Head(addrs)>>
    ELSE FirstOfType(Tail(addrs), type)

\* Faulty variant of the choice of the address: the first reported address.
BestIP_firstAddress(addrs) == IF addrs = <<>> THEN <<>> ELSE <<Head(addrs)>>

\* GetVmStatus, the address an interface keeps: the first IPv4 address, else
\* the first IPv6 address, else the first address; nil if it has none.
BestIP(addrs) ==
    IF FirstOfType(addrs, IPTypeIPv4) # <<>> THEN FirstOfType(addrs, IPTypeIPv4)
    ELSE IF addrs = <<>> THEN <<>>
    ELSE IF FirstOfType(addrs, IPTypeIPv6) # <<>> THEN FirstOfType(addrs, IPTypeIPv6)
    ELSE <<Head(addrs)>>

\* GetVmStatus, the test an interface of a QEMU guest has to pass.
KeepQemuInterface(macs, iface) ==
    /\ ~iface.IsLoopback
    /\ ~HasVethPrefix(iface.Name)
    /\ (macs.isNil \/ ToUpper(iface.MACAddress) \in macs.set)

\* GetVmStatus, the test an interface of an LXC guest has to pass.
KeepLxcInterface(macs, iface) ==
    /\ ~iface.IsLoopback
    /\ (macs.set # {} => ToUpper(iface.MACAddress) \in macs.set)

\* GetVmStatus, the loop over the reported interfaces.
FilterInterfaces(type, macs, raw) ==
    LET keep(iface) == IF type = VMTypeQemu THEN KeepQemuInterface(macs, iface)
                       ELSE KeepLxcInterface(macs, iface)
        kept == SelectSeq(raw, keep)
    IN [k \in DOMAIN kept |-> [kept[k] EXCEPT !.IPAddresses = BestIP(@)]]

\* GetFirstNonLoopbackIP(interfaces, true): the first IPv4 address of a
\* non-loopback interface, "" if there is none.
RECURSIVE GetFirstNonLoopbackIP(_)
GetFirstNonLoopbackIP(ifaces) ==
    IF ifaces = <<>> THEN ""
    ELSE IF ~Head(ifaces).IsLoopback
            /\ FirstOfType(Head(ifaces).IPAddresses, IPTypeIPv4) # <<>>
         THEN FirstOfType(Head(ifaces).IPAddresses, IPTypeIPv4)[1].Address
         ELSE GetFirstNonLoopbackIP(Tail(ifaces))

\* GetVmStatus on a running guest whose status request succeeded: the config
\* request, the interface query and the filter.
GetVmStatusInterfaces(vm, config, raw) ==
    LET v1 == IF config.ok
              THEN [vm EXCEPT !.ConfiguredMACs = populateConfiguredMACs(config),
                              !.AgentEnabled =
                                  IF vm.Type = VMTypeQemu /\ config.agent # "absent"
                                  THEN config.agent = "on" ELSE @]
              ELSE vm
        asked == vm.Type = VMTypeLXC \/ v1.AgentEnabled
        kept == FilterInterfaces(vm.Type, v1.ConfiguredMACs, raw)
        v2 == IF asked /\ raw # <<>>
              THEN [v1 EXCEPT !.AgentRunning = IF vm.Type = VMTypeQemu THEN TRUE ELSE @,
                              !.NetInterfaces = kept,
                              !.IP = IF @ = "" /\ kept # <<>>
                                     THEN GetFirstNonLoopbackIP(kept) ELSE @]
              ELSE IF asked
              THEN [v1 EXCEPT !.AgentRunning = IF vm.Type = VMTypeQemu THEN FALSE ELSE @,
                              !.NetInterfaces = <<>>,
                              !.IP = IF v1.ConfiguredMACs.set = {} THEN "" ELSE @]
              ELSE [v1 EXCEPT !.AgentRunning = FALSE, !.NetInterfaces = <<>>]
    IN [v2 EXCEPT !.Enriched = TRUE]

\* The guest record with the disk values /cluster/resources gave it.
WithDisk(vm, disk, maxdisk) == vm @@ [Disk |-> disk, MaxDisk |-> maxdisk]

\* The answers of the status/current request: the request fails, the response
\* has no object under "data", or the data has the disk values.
StatusAnswers ==
    {[ok |-> FALSE, hasData |-> FALSE, disk |-> 0, maxdisk |-> 0],
     [ok |-> TRUE, hasData |-> FALSE, disk |-> 0, maxdisk |-> 0],
     [ok |-> TRUE, hasData |-> TRUE, disk |-> 0, maxdisk |-> 0],
     [ok |-> TRUE, hasData |-> TRUE, disk |-> 5, maxdisk |-> 9]}

\* The sums over the filesystems the guest agent reports and the filter keeps.
FsAnswers == {[total |-> 0, used |-> 0], [total |-> 20, used |-> 10]}

\* GetVmStatus, the disk values of status/current: a value that is missing or
\* zero leaves the field as it was.
StatusDisk(vm, st) ==
    [vm EXCEPT !.Disk = IF st.disk > 0 THEN st.disk ELSE @,
               !.MaxDisk = IF st.maxdisk > 0 THEN st.maxdisk ELSE @]

\* GetVmStatus, the disk values of the filesystems of a QEMU guest whose
\* agent returned interfaces.
FsDisk(vm, raw, fs) ==
    IF vm.Type = VMTypeQemu /\ vm.AgentEnabled /\ raw # <<>> /\ fs.total > 0
    THEN [vm EXCEPT !.MaxDisk = fs.total, !.Disk = fs.used]
    ELSE vm

\* Faulty variant of GetVmStatusCall: a failed call marks the guest as not
\* enriched.
GetVmStatusCall_clearsEnriched(vm, st, config, raw, fs) ==
    IF ~st.ok \/ ~st.hasData
    THEN [vm |-> [vm EXCEPT !.Enriched = FALSE], err |-> TRUE]
    ELSE LET v == GetVmStatusInterfaces(StatusDisk(vm, st), config, raw)
         IN [vm |-> FsDisk(v, raw, fs), err |-> FALSE]

\* GetVmStatus on a running guest, all of the call: the guest after the call
\* and whether the call returned an error.
GetVmStatusCall(vm, st, config, raw, fs) ==
    IF ~st.ok \/ ~st.hasData
    THEN [vm |-> vm, err |-> TRUE]
    ELSE LET v == GetVmStatusInterfaces(StatusDisk(vm, st), config, raw)
         IN [vm |-> FsDisk(v, raw, fs), err |-> FALSE]

\* The body of the worker loop of EnrichVMs: the disk values are saved, the
\* guest is enriched, and a disk value that became zero is restored.
WorkerBody(vm, st, config, raw, fs) ==
    LET res == GetVmStatusCall(vm, st, config, raw, fs)
    IN [vm |-> [res.vm EXCEPT
                   !.Disk = IF @ = 0 /\ vm.Disk > 0 THEN vm.Disk ELSE @,
                   !.MaxDisk = IF @ = 0 /\ vm.MaxDisk > 0 THEN vm.MaxDisk ELSE @],
        err |-> res.err]

\* A failed config request, and before any request was made.
FailedConfig == [ok |-> FALSE, agent |-> "absent", nets |-> <<>>]

NoNet ==
    [step |-> "none", vm |-> NetVM(VMTypeQemu, ""), config |-> FailedConfig,
     raw |-> <<>>]

\* --------------------------------------------------------- configuration

\* A config with the fields validation reads, and the realm SetDefaults fills.
Config(addr, user, password, tokenID, tokenSecret, realm) ==
    [Addr |-> addr, User |-> user, Password |-> password, TokenID |-> tokenID,
     TokenSecret |-> tokenSecret, Realm |-> realm]

\* Config.SetDefaults: an empty realm becomes "pam".
SetDefaults(c) == [c EXCEPT !.Realm = IF @ = "" THEN "pam" ELSE @]

\* Config.IsUsingTokenAuth
IsUsingTokenAuth(c) == c.TokenID # "" /\ c.TokenSecret # ""

\* Faulty variant of Validate: a token ID alone counts as a token.
Validate_tokenIDOnly(c) ==
    IF c.Addr = "" THEN "address required"
    ELSE IF c.User = "" THEN "username required"
    ELSE IF c.Password = "" /\ c.TokenID = "" THEN "authentication required"
    ELSE ""

\* Config.Validate: the message of the error, "" for nil.
Validate(c) ==
    IF c.Addr = "" THEN "address required"
    ELSE IF c.User = "" THEN "username required"
    ELSE IF c.Password = "" /\ ~IsUsingTokenAuth(c) THEN "authentication required"
    ELSE ""

\* Before a config was made.
NoConfig == [step |-> "none", config |-> Config("", "", "", "", "", ""), err |-> ""]

\* ------------------------------------------------------------ the process

\* config.NewConfig(): the fields are read from the environment variables.
NewConfig(env) == env

\* cfg.ParseFlags() and flag.Parse(): the default of each flag is the value
\* the field has; a flag given on the command line replaces it.
ParseFlags(c, flags) ==
    [k \in DOMAIN c |-> IF flags[k] # "" THEN flags[k] ELSE c[k]]

\* cfg.MergeWithFile(path): a field of the file fills a field that is still
\* empty; a field that the environment or a flag has set is kept.
MergeWithFile(c, file) ==
    [k \in DOMAIN c |-> IF c[k] = "" THEN file[k] ELSE c[k]]

\* The results of app.RunWithStartupVerification: nil once the application
\* has run and quit, or the error of the failed verification.
RunWithStartupVerificationResults ==
    {"nil", "authentication failed", "connection refused", "timeout"}

\* Faulty variant of the exit of startMainApp: always os.Exit(0).
startMainAppExit_alwaysZero(err) == 0

\* startMainApp: os.Exit(1) if RunWithStartupVerification returned an error,
\* os.Exit(0) otherwise.
startMainAppExit(err) == IF err # "nil" THEN 1 ELSE 0

\* Before the process has started.
NoProc ==
    [pc |-> "none", env |-> Config("", "", "", "", "", ""),
     file |-> Config("", "", "", "", "", ""), hasFile |-> FALSE,
     flags |-> Config("", "", "", "", "", ""), version |-> FALSE,
     wizard |-> FALSE, config |-> Config("", "", "", "", "", ""),
     loaded |-> "none", createErr |-> "none", verifyErr |-> "none", code |-> -1]

\* The state of the parts of the application that have not started.
\* --------------------------------------------------------- the VNC proxy

\* Faulty variant of GetVNCProxyWithWebSocket: generate-password is sent for
\* containers as well.
GetVNCProxyWithWebSocket_passwordForLXC(vm, postOk) ==
    IF vm.Type # VMTypeQemu /\ vm.Type # VMTypeLXC
    THEN [request |-> <<>>, ok |-> FALSE,
          err |-> "VNC proxy only available for QEMU VMs and LXC containers"]
    ELSE [request |-> <<[path |-> <<"nodes", vm.Node, vm.Type, vm.ID, "vncproxy">>,
                         data |-> ("websocket" :> 1) @@ ("generate-password" :> 1)]>>,
          ok |-> postOk,
          err |-> IF postOk THEN "" ELSE "failed to create VNC proxy with WebSocket"]

\* Client.GetVNCProxyWithWebSocket(vm): the requests it sends with
\* PostWithResponse, whether it returns a response, and the error; postOk is
\* the outcome of the request.
GetVNCProxyWithWebSocket(vm, postOk) ==
    IF vm.Type # VMTypeQemu /\ vm.Type # VMTypeLXC
    THEN [request |-> <<>>, ok |-> FALSE,
          err |-> "VNC proxy only available for QEMU VMs and LXC containers"]
    ELSE [request |-> <<[path |-> <<"nodes", vm.Node, vm.Type, vm.ID, "vncproxy">>,
                         data |-> IF vm.Type = VMTypeLXC
                                  THEN ("websocket" :> 1)
                                  ELSE ("websocket" :> 1) @@ ("generate-password" :> 1)]>>,
          ok |-> postOk,
          err |-> IF postOk THEN "" ELSE "failed to create VNC proxy with WebSocket"]

\* ------------------------------------------- the lock of a guest record

\* A call of GetVmStatus that has not started: the type of its guest, its
\* position, whether it holds vm.mu, whether a request of it is in flight.
IdleVmTask(type) ==
    [type |-> type, pc |-> "idle", locked |-> FALSE, http |-> FALSE,
     agentEnabled |-> FALSE, enriched |-> FALSE, err |-> FALSE]

\* GetVmStatus returns: the deferred vm.mu.Unlock() runs.
ReturnVmTask(t, err) ==
    [t EXCEPT !.pc = "returned", !.locked = FALSE, !.err = err,
              !.enriched = IF err THEN @ ELSE TRUE]

\* GetVmStatus of a running guest, from the answer of one request to the next
\* request or to the return: the status request, the config request, the
\* interfaces of the agent or of the container, the filesystems of the agent.
AfterAnswer(t, ok, agent) ==
    IF t.pc = "status"
    THEN IF ok THEN [t EXCEPT !.pc = "config"] ELSE ReturnVmTask(t, TRUE)
    ELSE IF t.pc = "config"
    THEN IF t.type = VMTypeLXC THEN [t EXCEPT !.pc = "interfaces"]
         ELSE IF ok /\ agent THEN [t EXCEPT !.pc = "interfaces", !.agentEnabled = TRUE]
         ELSE ReturnVmTask(t, FALSE)
    ELSE IF t.pc = "interfaces"
    THEN IF t.type = VMTypeQemu /\ ok THEN [t EXCEPT !.pc = "fsinfo"]
         ELSE ReturnVmTask(t, FALSE)
    ELSE ReturnVmTask(t, FALSE)

\* ----------------------------------- the channels of an EnrichVMs call

\* A worker of the call: not started, waiting at its range loop, inside
\* GetVmStatus for guest vm, about to send err, or returned.
PoolWorker(st, vm, err) == [st |-> st, vm |-> vm, err |-> err]

\* Before EnrichVMs is called.
NoPool ==
    [pc |-> "none", toQueue |-> <<>>, vmChan |-> <<>>, vmClosed |-> FALSE,
     errChan |-> <<>>, errClosed |-> FALSE,
     worker |-> [w \in Workers |-> PoolWorker("off", <<0, 0>>, FALSE)],
     collector |-> "off", errors |-> 0, handed |-> <<>>, err |-> FALSE]

\* Faulty variant of EnrichVMsStart: the error collector is not started.
EnrichVMsStart_noCollector ==
    /\ pool.pc = "call"
    /\ pool' = IF totalVMs(cluster) = 0
               THEN [pool EXCEPT !.pc = "returned", !.err = FALSE]
               ELSE [pool EXCEPT !.pc = "queue",
                                 !.toQueue = QueueOrder(cluster),
                                 !.worker = [w \in Workers |->
                                                PoolWorker("idle", <<0, 0>>, FALSE)]]
    /\ UNCHANGED <<coreVars, proc, vnc, vmTask, app, shell>>

\* EnrichVMs up to the queueing loop: with no guest on an online node it
\* returns nil; otherwise the error collector and the workers are started.
EnrichVMsStart ==
    /\ pool.pc = "call"
    /\ pool' = IF totalVMs(cluster) = 0
               THEN [pool EXCEPT !.pc = "returned", !.err = FALSE]
               ELSE [pool EXCEPT !.pc = "queue",
                                 !.toQueue = QueueOrder(cluster),
                                 !.collector = "run",
                                 !.worker = [w \in Workers |->
                                                PoolWorker("idle", <<0, 0>>, FALSE)]]
    /\ UNCHANGED <<coreVars, proc, vnc, vmTask, app, shell>>

\* vmChan <- node.VMs[i]: blocks while the channel is full.
EnrichVMsQueue ==
    /\ pool.pc = "queue"
    /\ pool.toQueue # <<>>
    /\ Len(pool.vmChan) < ChanCap
    /\ pool' = [pool EXCEPT !.vmChan = Append(@, Head(pool.toQueue)),
                            !.toQueue = Tail(@)]
    /\ UNCHANGED <<coreVars, proc, vnc, vmTask, app, shell>>

\* close(vmChan); the caller then waits in wg.Wait()
EnrichVMsClose ==
    /\ pool.pc = "queue"
    /\ pool.toQueue = <<>>
    /\ pool' = [pool EXCEPT !.pc = "wait", !.vmClosed = TRUE]
    /\ UNCHANGED <<coreVars, proc, vnc, vmTask, app, shell>>

\* for vm := range vmChan: the worker receives the next guest.
PoolReceive(w) ==
    /\ pool.worker[w].st = "idle"
    /\ pool.vmChan # <<>>
    /\ pool' = [pool EXCEPT !.worker[w] = PoolWorker("busy", Head(pool.vmChan), FALSE),
                            !.vmChan = Tail(@),
                            !.handed = Append(@, Head(pool.vmChan))]
    /\ UNCHANGED <<coreVars, proc, vnc, vmTask, app, shell>>

\* err := c.GetVmStatus(vm) returns, with an error or without.
PoolGetVmStatus(w) ==
    /\ pool.worker[w].st = "busy"
    /\ \E err \in BOOLEAN :
         pool' = [pool EXCEPT !.worker[w] = PoolWorker("send", @.vm, err)]
    /\ UNCHANGED <<coreVars, proc, vnc, vmTask, app, shell>>

\* errChan <- err: blocks while the channel is full.
PoolSendErr(w) ==
    /\ pool.worker[w].st = "send"
    /\ Len(pool.errChan) < ChanCap
    /\ pool' = [pool EXCEPT !.errChan = Append(@, pool.worker[w].err),
                            !.worker[w] = PoolWorker("idle", <<0, 0>>, FALSE)]
    /\ UNCHANGED <<coreVars, proc, vnc, vmTask, app, shell>>

\* The range loop of a worker ends when vmChan is closed and empty: wg.Done()
PoolWorkerExit(w) ==
    /\ pool.worker[w].st = "idle"
    /\ pool.vmChan = <<>>
    /\ pool.vmClosed
    /\ pool' = [pool EXCEPT !.worker[w] = PoolWorker("exited", <<0, 0>>, FALSE)]
    /\ UNCHANGED <<coreVars, proc, vnc, vmTask, app, shell>>

\* The collector receives from errChan and appends a non-nil error.
CollectErr ==
    /\ pool.collector = "run"
    /\ pool.errChan # <<>>
    /\ pool' = [pool EXCEPT !.errChan = Tail(@),
                            !.errors = IF Head(pool.errChan) THEN @ + 1 ELSE @]
    /\ UNCHANGED <<coreVars, proc, vnc, vmTask, app, shell>>

\* The range loop of the collector ends when errChan is closed and empty:
\* close(done)
CollectorExit ==
    /\ pool.collector = "run"
    /\ pool.errChan = <<>>
    /\ pool.errClosed
    /\ pool' = [pool EXCEPT !.collector = "done"]
    /\ UNCHANGED <<coreVars, proc, vnc, vmTask, app, shell>>

\* wg.Wait() returns when every worker has called wg.Done(); close(errChan)
EnrichVMsWait ==
    /\ pool.pc = "wait"
    /\ \A w \in Workers : pool.worker[w].st = "exited"
    /\ pool' = [pool EXCEPT !.pc = "done", !.errClosed = TRUE]
    /\ UNCHANGED <<coreVars, proc, vnc, vmTask, app, shell>>

\* <-done, and the error EnrichVMs returns.
EnrichVMsReturn ==
    /\ pool.pc = "done"
    /\ pool.collector = "done"
    /\ pool' = [pool EXCEPT !.pc = "returned", !.err = EnrichVMsFails(pool.errors)]
    /\ UNCHANGED <<coreVars, proc, vnc, vmTask, app, shell>>

\* ------------------------------------------------- the VNC warning

\* What a VNC request is made for: the selected node or guest (none stands
\* for a nil selection), and for a node its online flag.
VncTarget(kind, name, online) == [kind |-> kind, name |-> name, online |-> online]

NoTarget == VncTarget("none", "", FALSE)

\* No VNC request was made: no dialog is open and no connection was started.
\* last is the last request: its target, whether it passed the checks, the
\* flag vncWarningShown it found and what it did.
NoShell ==
    [vncWarningShown |-> FALSE, dialogs |-> <<>>, message |-> "", header |-> "",
     started |-> <<>>, requests |-> 0,
     last |-> [target |-> NoTarget, passed |-> FALSE, reason |-> "",
               shown |-> FALSE, did |-> "none"]]

\* connectToNodeVNC / connectToVMVNC: the loading message is shown and the
\* goroutine that opens the connection is started.
connectToVNC(sh, target) ==
    [sh EXCEPT !.header = "loading", !.started = Append(@, target)]

\* showVNCWarning: the confirmation dialog is opened; its callback connects.
showVNCWarning(sh, target) == [sh EXCEPT !.dialogs = Append(@, target)]

\* The checks of openNodeVNC and openVMVNC before the warning: the message
\* they show, "" if the request passes.
VncRejection(target, available) ==
    IF target.kind = "none" THEN "nothing selected"
    ELSE IF target.kind = "node" /\ ~target.online THEN "Node is offline"
    ELSE IF ~available THEN "VNC not available"
    ELSE ""

\* Faulty variant of openVNC: the connection is started without the warning.
openVNC_connectsDirectly(sh, target, available) ==
    LET reason == VncRejection(target, available)
        req == [target |-> target, passed |-> reason = "", reason |-> reason, shown |-> sh.vncWarningShown,
                did |-> IF reason # "" THEN "message" ELSE "connect"]
        s1 == [sh EXCEPT !.requests = @ + 1, !.last = req]
    IN IF reason # "" THEN [s1 EXCEPT !.message = reason]
       ELSE connectToVNC(s1, target)

\* openNodeVNC / openVMVNC for the selected target: a rejected request shows
\* a message; otherwise the warning is shown if it was never confirmed, and
\* the connection is started directly if it was.
openVNC(sh, target, available) ==
    LET reason == VncRejection(target, available)
        req == [target |-> target, passed |-> reason = "", reason |-> reason, shown |-> sh.vncWarningShown,
                did |-> IF reason # "" THEN "message"
                        ELSE IF ~sh.vncWarningShown THEN "warning" ELSE "connect"]
        s1 == [sh EXCEPT !.requests = @ + 1, !.last = req]
    IN IF reason # "" THEN [s1 EXCEPT !.message = reason]
       ELSE IF ~sh.vncWarningShown THEN showVNCWarning(s1, target)
       ELSE connectToVNC(s1, target)

\* ------------------------------- the script selector and the VNC header

\* The scripts scripts.GetScriptsByCategory returns for the categories of the
\* models, in the order of the repository, and the order of their names.
ScriptCategories == {"ct", "vm"}

FetchedScripts(category) ==
    IF category = "ct" THEN <<"debian", "alpine">> ELSE <<"haos">>

NameRank(name) == IF name = "alpine" THEN 1 ELSE IF name = "debian" THEN 2 ELSE 3

\* sort.Slice(fetchedScripts, by name), for the lists of the models.
SortScripts(list) ==
    IF Len(list) = 2 /\ NameRank(list[2]) < NameRank(list[1])
    THEN <<list[2], list[1]>>
    ELSE list

\* The function the fetch goroutine queues with QueueUpdateDraw: the loading
\* state is reset; an error is shown on the categories page; otherwise the
\* sorted scripts are stored and listed (scripts stands for s.scripts and for
\* the items of s.scriptList) and the scripts page gets the focus.
ScriptsDraw(a, fetch) ==
    IF ~fetch.ok
    THEN [a EXCEPT !.isLoading = FALSE, !.header = "error", !.page = "categories",
                   !.focus = "categoryList"]
    ELSE [a EXCEPT !.isLoading = FALSE, !.page = "scripts", !.focus = "scriptList",
                   !.scripts = SortScripts(FetchedScripts(fetch.category)),
                   !.header = "success"]

\* The function the VNC goroutine queues: the header shows the outcome.
VncDraw(a, conn) == [a EXCEPT !.header = IF conn.ok THEN "success" ELSE "error"]

\* The script selector on its categories page, nothing fetched, no VNC
\* connection asked for, no function queued for the UI thread.
NoAppState ==
    [page |-> "categories", focus |-> "categoryList", isLoading |-> FALSE,
     scripts |-> <<>>, header |-> "", fetches |-> <<>>,
     conn |-> [st |-> "none", ok |-> FALSE], jobs |-> <<>>]

NoApp ==
    /\ proc = NoProc
    /\ vnc = <<>>
    /\ vmTask = <<>>
    /\ app = NoAppState
    /\ pool = NoPool
    /\ shell = NoShell

\* ------------------------------------------------------ specifications

NodeNames == <<"a", "b", "c", "d", "e">>

\* The vmids the models use.
GuestIds == 100 .. (101 + PoolGuests)

\* A /cluster/status response: the cluster record, then n node records with
\* the online flags onl.
StatusItems(n, onl) ==
    <<[type |-> "cluster", name |-> "pve", nodes |-> n, online |-> 0]>>
    \o [k \in 1..n |-> [type |-> "node", name |-> NodeNames[k], nodes |-> 0,
                        online |-> onl[k]]]

\* A /cluster/status response without a cluster record: node records only.
NodeOnlyItems(n, onl) == Tail(StatusItems(n, onl))

GuestItem(id, node, type, status) ==
    [type |-> type, node |-> node, vmid |-> id, status |-> status]

StorageItem(id, node, shared, maxdisk) ==
    [type |-> "storage", node |-> node, id |-> id, shared |-> shared,
     maxdisk |-> maxdisk]

NodeItem(node, cpu, mem, maxmem) ==
    [type |-> "node", node |-> node, cpu |-> cpu, mem |-> mem, maxmem |-> maxmem]

\* No request has gone through the cache and no refresh was requested.
NoRefresh ==
    /\ now = 0
    /\ cache = EmptyCache
    /\ lastGet = NoGet
    /\ refreshPc = [k \in RefreshIds |-> "none"]
    /\ ui = EmptyUi
    /\ net = NoNet
    /\ cfg = NoConfig
    /\ NoApp

\* The state in which a build starts.
BuildStart ==
    /\ pc = "p1"
    /\ cluster = NewCluster
    /\ nodeTask = <<>>
    /\ nodeErrs = 0
    /\ ret = NoReturn
    /\ enrichPc = "none"
    /\ toQueue = <<>>
    /\ vmChan = <<>>
    /\ worker = [w \in Workers |-> OffWorker]
    /\ vmErrs = 0
    /\ enrichErr = FALSE
    /\ calls = [id \in GuestIds |-> 0]
    /\ bgPc = "none"
    /\ retryLeft = <<>>
    /\ cbCount = 0

\* Spec: a build, slow or fast, of MaxNodes nodes, with or without a cluster
\* record in /cluster/status, each node reported
\* online or offline by /cluster/status and each status request failing or not;
\* the cluster has one running QEMU guest, a shared and a local storage.
Init ==
    /\ upStatus \in {StatusItems(MaxNodes, onl) : onl \in [1..MaxNodes -> {0, 1}]}
                   \cup {NodeOnlyItems(MaxNodes, onl) : onl \in [1..MaxNodes -> {0, 1}]}
    /\ upResources = <<NodeItem("a", 1, 2, 4),
                       StorageItem("nas", "a", 1, 2), StorageItem("nas", "b", 1, 2),
                       StorageItem("local", "a", 0, 1),
                       GuestItem(100, "a", VMTypeQemu, VMStatusRunning)>>
    /\ upAnswers = VmResponses
    /\ upFixed = NoFixed
    /\ fast \in BOOLEAN
    /\ hasCallback = fast
    /\ BuildStart
    /\ NoRefresh

BuildNext ==
    \/ BasicStatus
    \/ \E i \in 1..(MaxNodes + 1) : UpdateNodeMetrics(i)
    \/ NodeStatusesDone
    \/ ClusterResources
    \/ Totals
    \/ Return

EnrichNext ==
    \/ EnrichStart
    \/ QueueVM
    \/ CloseVmChan
    \/ \E w \in Workers : WorkerReceive(w)
    \/ \E w \in Workers : WorkerGetVmStatus(w)
    \/ EnrichReturn

BgNext ==
    \/ BgEnrich
    \/ BgSleep
    \/ BgRetry
    \/ BgCallback

Next == BuildNext \/ EnrichNext \/ BgNext

Spec == Init /\ [][Next]_vars

\* SpecGuests: a build, slow or fast, of a one-node cluster with MaxGuests
\* guests, each a running QEMU guest, a running container or a stopped guest.
GuestKinds ==
    {<<VMTypeQemu, VMStatusRunning>>, <<VMTypeLXC, VMStatusRunning>>,
     <<VMTypeQemu, VMStatusStopped>>}

InitGuests ==
    /\ upStatus = StatusItems(1, <<1>>)
    /\ upResources \in
         {[k \in 1..MaxGuests |-> GuestItem(100 + k, "a", kinds[k][1], kinds[k][2])] :
              kinds \in [1..MaxGuests -> GuestKinds]}
    /\ upAnswers = VmResponses
    /\ upFixed = NoFixed
    /\ fast \in BOOLEAN
    /\ hasCallback \in (IF fast THEN BOOLEAN ELSE {FALSE})
    /\ BuildStart
    /\ NoRefresh

SpecGuests == InitGuests /\ [][Next]_vars

\* SpecPool: one EnrichVMs call on a cluster whose online node has PoolGuests
\* running containers and a stopped guest, and whose offline node has a
\* running guest; a guest's status request fails or succeeds.
PoolCluster ==
    [NewCluster EXCEPT
        !.TotalNodes = 2,
        !.Nodes = <<[NewNode("a", TRUE) EXCEPT
                        !.VMs = <<NewVM(100, "a", VMTypeQemu, VMStatusStopped)>>
                                \o [k \in 1..PoolGuests |->
                                       NewVM(100 + k, "a", VMTypeLXC, VMStatusRunning)]],
                    [NewNode("b", FALSE) EXCEPT
                        !.VMs = <<NewVM(101 + PoolGuests, "b", VMTypeLXC,
                                        VMStatusRunning)>>]>>]

InitPool ==
    /\ upStatus = <<>>
    /\ upResources = <<>>
    /\ upAnswers = {r \in VmResponses : r.config = "off"}
    /\ upFixed = NoFixed
    /\ fast = FALSE
    /\ hasCallback = FALSE
    /\ pc = "caller"
    /\ cluster = PoolCluster
    /\ nodeTask = <<>>
    /\ nodeErrs = 0
    /\ ret = NoReturn
    /\ enrichPc = "call"
    /\ toQueue = <<>>
    /\ vmChan = <<>>
    /\ worker = [w \in Workers |-> OffWorker]
    /\ vmErrs = 0
    /\ enrichErr = FALSE
    /\ calls = [id \in GuestIds |-> 0]
    /\ bgPc = "none"
    /\ retryLeft = <<>>
    /\ cbCount = 0
    /\ NoRefresh

SpecPool == InitPool /\ [][EnrichNext]_vars

\* SpecStorage: phases 3 to 5 of a slow build of a cluster of MaxNodes nodes
\* that all answered in phase 2. /cluster/resources lists, for every node and
\* for a node the cluster does not have, the storage "nas" and "local", each
\* absent, shared or not shared. Capacities are in units of 500 GB.
StorageIds == <<"nas", "local">>

Capacity(id) == IF id = "nas" THEN 2 ELSE 1

StorageSlots ==
    Concat([k \in 1..(MaxNodes + 1) |->
               [j \in 1..2 |-> <<IF k <= MaxNodes THEN NodeNames[k] ELSE "zz",
                                 StorageIds[j]>>]])

StorageList(f) ==
    LET idx == SelectSeq([k \in DOMAIN StorageSlots |-> k], LAMBDA k : f[k] # "none")
    IN [j \in DOMAIN idx |->
           StorageItem(StorageSlots[idx[j]][2], StorageSlots[idx[j]][1],
                       IF f[idx[j]] = "shared" THEN 1 ELSE 0,
                       Capacity(StorageSlots[idx[j]][2]))]

AfterNodeStatuses(n) ==
    LET c == getClusterBasicStatus(NewCluster, StatusItems(n, [k \in 1..n |-> 1]))
    IN [c EXCEPT !.Nodes = [i \in DOMAIN c.Nodes |->
                               updateNodeMetrics(c.Nodes[i], TRUE).node]]

InitStorage ==
    /\ upStatus = StatusItems(MaxNodes, [k \in 1..MaxNodes |-> 1])
    /\ upResources \in {StorageList(f) :
                           f \in [DOMAIN StorageSlots -> {"none", "shared", "local"}]}
    /\ upAnswers = VmResponses
    /\ upFixed = NoFixed
    /\ fast = FALSE
    /\ hasCallback = FALSE
    /\ pc = "p3"
    /\ cluster = AfterNodeStatuses(MaxNodes)
    /\ nodeTask = [i \in 1..MaxNodes |-> "ok"]
    /\ nodeErrs = 0
    /\ ret = NoReturn
    /\ enrichPc = "none"
    /\ toQueue = <<>>
    /\ vmChan = <<>>
    /\ worker = [w \in Workers |-> OffWorker]
    /\ vmErrs = 0
    /\ enrichErr = FALSE
    /\ calls = [id \in GuestIds |-> 0]
    /\ bgPc = "none"
    /\ retryLeft = <<>>
    /\ cbCount = 0
    /\ NoRefresh

StorageNext ==
    \/ ClusterResources
    \/ EnrichStart
    \/ Totals
    \/ Return

SpecStorage == InitStorage /\ [][StorageNext]_vars

\* SpecRefresh: the user asks for up to MaxRefresh refreshes while background
\* passes read through the cache and time passes.
InitRefresh ==
    /\ upStatus = <<>>
    /\ upResources = <<>>
    /\ upAnswers = VmResponses
    /\ upFixed = NoFixed
    /\ fast = FALSE
    /\ hasCallback = FALSE
    /\ pc = "none"
    /\ cluster = NewCluster
    /\ nodeTask = <<>>
    /\ nodeErrs = 0
    /\ ret = NoReturn
    /\ enrichPc = "none"
    /\ toQueue = <<>>
    /\ vmChan = <<>>
    /\ worker = [w \in Workers |-> OffWorker]
    /\ vmErrs = 0
    /\ enrichErr = FALSE
    /\ calls = [id \in GuestIds |-> 0]
    /\ bgPc = "none"
    /\ retryLeft = <<>>
    /\ cbCount = 0
    /\ NoRefresh

RefreshNext ==
    \/ Tick
    \/ \E path \in Paths : BackgroundGet(path)
    \/ ManualRefresh
    \/ \E k \in RefreshIds : RefreshRequest(k)
    \/ \E k \in RefreshIds : RefreshDraw(k)

SpecRefresh == InitRefresh /\ [][RefreshNext]_vars

\* SpecAgent: the guests of a one-node snapshot are enriched again and again,
\* by whichever caller holds them (a worker of EnrichVMs, the retry loop, a
\* refresh of the guest), up to MaxPasses times each, with any answer.
InitAgent ==
    /\ upStatus = StatusItems(1, <<1>>)
    /\ upResources \in
         {[k \in 1..MaxGuests |-> GuestItem(100 + k, "a", kinds[k][1], kinds[k][2])] :
              kinds \in [1..MaxGuests -> GuestKinds]}
    /\ upAnswers = AllVmResponses
    /\ upFixed = NoFixed
    /\ fast = FALSE
    /\ hasCallback = FALSE
    /\ pc = "caller"
    /\ cluster = processClusterResources(AfterNodeStatuses(1), upResources)
    /\ nodeTask = <<"ok">>
    /\ nodeErrs = 0
    /\ ret = NoReturn
    /\ enrichPc = "none"
    /\ toQueue = <<>>
    /\ vmChan = <<>>
    /\ worker = [w \in Workers |-> OffWorker]
    /\ vmErrs = 0
    /\ enrichErr = FALSE
    /\ calls = [id \in GuestIds |-> 0]
    /\ bgPc = "none"
    /\ retryLeft = <<>>
    /\ cbCount = 0
    /\ NoRefresh

\* c.GetVmStatus(vm) on the guest at r of the snapshot.
CallGetVmStatus(r) ==
    /\ calls[VMAt(cluster, r).ID] < MaxPasses
    /\ \E resp \in upAnswers :
         /\ cluster' = [cluster EXCEPT !.Nodes[r[1]].VMs[r[2]] =
                                        GetVmStatus(VMAt(cluster, r), resp).vm]
         /\ calls' = [calls EXCEPT ![VMAt(cluster, r).ID] = @ + 1]
    /\ UNCHANGED <<upVars, appVars, net, cfg, ui, cacheVars, refreshPc, buildVars, enrichVars, bgVars>>

AgentNext == \E r \in Range(AllRefs(cluster)) : CallGetVmStatus(r)

SpecAgent == InitAgent /\ [][AgentNext]_vars

\* The lists of the UI across a manual refresh. The lists show an earlier
\* cluster; upstream, the order of the nodes and the guests and their states
\* may have changed since. One refresh request is left to make.
UiNodeOrders == {<<"a", "b">>, <<"b", "a">>}

UiStatusItems(order) ==
    <<[type |-> "cluster", name |-> "pve", nodes |-> Len(order), online |-> 0]>>
    \o [k \in DOMAIN order |-> [type |-> "node", name |-> order[k], nodes |-> 0,
                                online |-> 1]]

UiGuestItem(id, node, name, status) ==
    [type |-> VMTypeQemu, node |-> node, vmid |-> id, status |-> status,
     name |-> name]

UiResources ==
    {<<UiGuestItem(101, "a", <<"A", "b">>, st)>> \o more :
        st \in {VMStatusRunning, VMStatusStopped},
        more \in {<<>>, <<UiGuestItem(102, "b", <<"b">>, VMStatusRunning)>>}}

\* The filters the user types.
UiVMFilters == {<<>>, <<"a">>, <<"B">>}

UiNodeFilters == {<<>>, <<"B">>}

InitUI ==
    /\ upStatus \in {UiStatusItems(order) : order \in UiNodeOrders}
    /\ upResources \in UiResources
    /\ upAnswers = VmResponses
    /\ upFixed = NoFixed
    /\ fast = FALSE
    /\ hasCallback = FALSE
    /\ pc = "none"
    /\ cluster = NewCluster
    /\ nodeTask = <<>>
    /\ nodeErrs = 0
    /\ ret = NoReturn
    /\ enrichPc = "none"
    /\ toQueue = <<>>
    /\ vmChan = <<>>
    /\ worker = [w \in Workers |-> OffWorker]
    /\ vmErrs = 0
    /\ enrichErr = FALSE
    /\ calls = [id \in GuestIds |-> 0]
    /\ bgPc = "none"
    /\ retryLeft = <<>>
    /\ cbCount = 0
    /\ now = 0
    /\ cache = EmptyCache
    /\ lastGet = NoGet
    /\ refreshPc = [k \in RefreshIds |-> IF k = 1 THEN "none" ELSE "done"]
    /\ net = NoNet
    /\ cfg = NoConfig
    /\ NoApp
    /\ \E order \in UiNodeOrders, resources \in UiResources :
         ui = [DrawRefresh(EmptyUi, Fetched(UiStatusItems(order), resources), NoSaved)
                 EXCEPT !.last = NoLast]

\* The user types a filter for the guest list or the node list: the filtered
\* list of the global state is derived from the original list and shown.
ApplyVMFilter(q) ==
    /\ q # ui.vmFilter
    /\ ui' = LET u1 == [ui EXCEPT !.vmFilter = q,
                                  !.filtVMs = FilterVMs(ui.origVMs, q)]
             IN SetVMs(u1, u1.filtVMs)
    /\ UNCHANGED <<upVars, appVars, net, cfg, buildVars, cluster, calls, enrichVars, bgVars, cacheVars, refreshPc>>

ApplyNodeFilter(q) ==
    /\ q # ui.nodeFilter
    /\ ui' = LET u1 == [ui EXCEPT !.nodeFilter = q,
                                  !.filtNodes = FilterNodes(ui.origNodes, q)]
             IN SetNodes(u1, u1.filtNodes)
    /\ UNCHANGED <<upVars, appVars, net, cfg, buildVars, cluster, calls, enrichVars, bgVars, cacheVars, refreshPc>>

\* The user moves the current item of a list.
SelectVM(i) ==
    /\ i < Len(ui.shownVMs)
    /\ i # ui.vmIndex
    /\ ui' = [ui EXCEPT !.vmIndex = i]
    /\ UNCHANGED <<upVars, appVars, net, cfg, buildVars, cluster, calls, enrichVars, bgVars, cacheVars, refreshPc>>

SelectNode(i) ==
    /\ i < Len(ui.shownNodes)
    /\ i # ui.nodeIndex
    /\ ui' = [ui EXCEPT !.nodeIndex = i]
    /\ UNCHANGED <<upVars, appVars, net, cfg, buildVars, cluster, calls, enrichVars, bgVars, cacheVars, refreshPc>>

UiNext ==
    \/ \E q \in UiVMFilters : ApplyVMFilter(q)
    \/ \E q \in UiNodeFilters : ApplyNodeFilter(q)
    \/ \E i \in 0..1 : SelectVM(i)
    \/ \E i \in 0..1 : SelectNode(i)
    \/ ManualRefresh
    \/ \E k \in RefreshIds : RefreshRequest(k)
    \/ \E k \in RefreshIds : RefreshDraw(k)

SpecUI == InitUI /\ [][UiNext]_vars

\* SpecNet: one running guest is listed by /cluster/resources, with or without
\* an ip field; GetDetailedVmInfo and GetVmStatus then read its config and
\* its interfaces.
GuestItemIP(id, node, type, status, ip) ==
    [type |-> type, node |-> node, vmid |-> id, status |-> status, ip |-> ip]

\* The addresses an interface reports; the last has a type tag that is
\* neither ipv4 nor ipv6.
Addr4 == [Address |-> "10.0.0.5", Type |-> IPTypeIPv4]

Addr6a == [Address |-> "fe80::1", Type |-> IPTypeIPv6]

Addr6b == [Address |-> "2001:db8::1", Type |-> IPTypeIPv6]

AddrOther == [Address |-> "192.168.1.7", Type |-> "inet"]

AddrLists ==
    {<<>>, <<Addr6a>>, <<Addr6a, Addr4, Addr6b>>, <<AddrOther, Addr6b>>, <<AddrOther>>}

\* The interfaces the agent (QEMU) or the interfaces endpoint (LXC) reports.
Iface(name, mac, loopback, addrs) ==
    [Name |-> name, MACAddress |-> mac, IsLoopback |-> loopback, IPAddresses |-> addrs]

NetIfaces ==
    {Iface("lo", "00:00:00:00:00:00", TRUE, <<>>),
     Iface("veth1", "de:ad:be:ef:00:01", FALSE, <<Addr6a>>),
     Iface("eth1", "de:ad:be:ef:00:01", FALSE, <<Addr4>>)}
    \cup {Iface("eth0", "aa:bb:cc:dd:ee:ff", FALSE, addrs) : addrs \in AddrLists}

\* The reported lists: up to two interfaces with different names.
RawLists ==
    {<<>>} \cup {<<i>> : i \in NetIfaces}
    \cup {p \in NetIfaces \X NetIfaces : p[1].Name # p[2].Name}

\* The answers of the config request: the request fails, or the config has
\* the agent key and netN strings.
Part(key, val) == [key |-> key, val |-> val]

QemuNet == <<Part("virtio", MacA), Part("bridge", "vmbr0")>>

LxcDhcpNet ==
    <<Part("name", "eth0"), Part("hwaddr", "aa:bb:cc:dd:ee:ff"),
      Part("bridge", "vmbr0"), Part("ip", "dhcp")>>

LxcStaticNet ==
    <<Part("name", "eth0"), Part("hwaddr", MacA), Part("bridge", "vmbr0"),
      Part("ip", "10.0.0.5/24")>>

\* A second device of a container, with a static address of its own.
LxcStaticNet1 ==
    <<Part("name", "eth1"), Part("hwaddr", MacD), Part("bridge", "vmbr1"),
      Part("ip", "192.168.1.7")>>

NetConfigs(type) ==
    IF type = VMTypeQemu
    THEN {FailedConfig,
          [ok |-> TRUE, agent |-> "on", nets |-> <<>>],
          [ok |-> TRUE, agent |-> "on", nets |-> <<QemuNet>>],
          [ok |-> TRUE, agent |-> "off", nets |-> <<QemuNet>>],
          [ok |-> TRUE, agent |-> "absent", nets |-> <<QemuNet>>]}
    ELSE {FailedConfig,
          [ok |-> TRUE, agent |-> "absent", nets |-> <<>>],
          [ok |-> TRUE, agent |-> "absent", nets |-> <<LxcDhcpNet>>],
          [ok |-> TRUE, agent |-> "absent", nets |-> <<LxcStaticNet>>],
          [ok |-> TRUE, agent |-> "absent", nets |-> <<LxcStaticNet, LxcStaticNet1>>]}

InitNet ==
    /\ upStatus = StatusItems(1, <<1>>)
    /\ upResources \in
         {<<GuestItem(101, "a", type, VMStatusRunning)>> :
              type \in {VMTypeQemu, VMTypeLXC}}
         \cup {<<GuestItemIP(101, "a", type, VMStatusRunning, ip)>> :
                  type \in {VMTypeQemu, VMTypeLXC}, ip \in {"dhcp", "10.0.0.5"}}
    /\ upAnswers = VmResponses
    /\ upFixed = NoFixed
    /\ fast = TRUE
    /\ hasCallback = FALSE
    /\ pc = "p3"
    /\ cluster = AfterNodeStatuses(1)
    /\ nodeTask = <<"ok">>
    /\ nodeErrs = 0
    /\ ret = NoReturn
    /\ enrichPc = "none"
    /\ toQueue = <<>>
    /\ vmChan = <<>>
    /\ worker = [w \in Workers |-> OffWorker]
    /\ vmErrs = 0
    /\ enrichErr = FALSE
    /\ calls = [id \in GuestIds |-> 0]
    /\ bgPc = "none"
    /\ retryLeft = <<>>
    /\ cbCount = 0
    /\ NoRefresh

\* The guest of the snapshot, as GetVmStatus gets it.
ListedGuest == NetVM(VMAt(cluster, <<1, 1>>).Type, VMAt(cluster, <<1, 1>>).IP)

\* c.GetDetailedVmInfo(node, type, vmid) for the listed guest; both requests
\* succeed and a new guest record is returned.
CallGetDetailedVmInfo ==
    /\ AllRefs(cluster) # <<>>
    /\ net.step = "none"
    /\ \E config \in NetConfigs(ListedGuest.Type) \ {FailedConfig} :
         \E ip \in ConfigIPs(config) :
            net' = [step |-> "detailed",
                    vm |-> GetDetailedVmInfo(ListedGuest.Type, config, ip),
                    config |-> config, raw |-> <<>>]
    /\ UNCHANGED <<upVars, appVars, cfg, ui, cacheVars, refreshPc, buildVars, cluster, calls, enrichVars, bgVars>>

\* c.GetDetailedVmInfo is called once more for the same guest and gets the
\* same status and config responses; first is the record of the first call.
CallGetDetailedVmInfoAgain ==
    /\ net.step = "detailed"
    /\ \E ip \in ConfigIPs(net.config) :
         net' = [step |-> "detailed again",
                 vm |-> GetDetailedVmInfo(net.vm.Type, net.config, ip),
                 first |-> net.vm, config |-> net.config, raw |-> <<>>]
    /\ UNCHANGED <<upVars, appVars, cfg, ui, cacheVars, refreshPc, buildVars, cluster, calls, enrichVars, bgVars>>

\* c.GetVmStatus(vm) for the listed guest or for the record GetDetailedVmInfo
\* returned; the status request succeeds.
CallGetVmStatusInterfaces ==
    /\ AllRefs(cluster) # <<>>
    /\ net.step \in {"none", "detailed"}
    /\ LET vm == IF net.step = "none" THEN ListedGuest ELSE net.vm
       IN \E config \in NetConfigs(vm.Type), raw \in RawLists :
            net' = [step |-> "enriched",
                    vm |-> GetVmStatusInterfaces(vm, config, raw),
                    config |-> config, raw |-> raw]
    /\ UNCHANGED <<upVars, appVars, cfg, ui, cacheVars, refreshPc, buildVars, cluster, calls, enrichVars, bgVars>>

NetNext ==
    \/ ClusterResources
    \/ CallGetDetailedVmInfo
    \/ CallGetDetailedVmInfoAgain
    \/ CallGetVmStatusInterfaces

SpecNet == InitNet /\ [][NetNext]_vars

\* SpecConfig: a config with any of its fields empty gets its defaults, or
\* not, and is validated.
ConfigInputs ==
    {Config(addr, user, password, tokenID, tokenSecret, realm) :
        addr \in {"", "https://example.com:8006"},
        user \in {"", "user"},
        password \in {"", "pass"},
        tokenID \in {"", "token"},
        tokenSecret \in {"", "secret"},
        realm \in {"", "pve"}}

InitConfig ==
    /\ upStatus = <<>>
    /\ upResources = <<>>
    /\ upAnswers = VmResponses
    /\ upFixed = NoFixed
    /\ fast = FALSE
    /\ hasCallback = FALSE
    /\ pc = "none"
    /\ cluster = NewCluster
    /\ nodeTask = <<>>
    /\ nodeErrs = 0
    /\ ret = NoReturn
    /\ enrichPc = "none"
    /\ toQueue = <<>>
    /\ vmChan = <<>>
    /\ worker = [w \in Workers |-> OffWorker]
    /\ vmErrs = 0
    /\ enrichErr = FALSE
    /\ calls = [id \in GuestIds |-> 0]
    /\ bgPc = "none"
    /\ retryLeft = <<>>
    /\ cbCount = 0
    /\ now = 0
    /\ cache = EmptyCache
    /\ lastGet = NoGet
    /\ refreshPc = [k \in RefreshIds |-> "none"]
    /\ ui = EmptyUi
    /\ net = NoNet
    /\ \E c \in ConfigInputs : cfg = [step |-> "new", config |-> c, err |-> ""]
    /\ NoApp

\* cfg.SetDefaults()
CallSetDefaults ==
    /\ cfg.step = "new"
    /\ cfg' = [cfg EXCEPT !.step = "defaults", !.config = SetDefaults(@)]
    /\ UNCHANGED <<upVars, appVars, net, ui, cacheVars, refreshPc, buildVars, cluster, calls, enrichVars, bgVars>>

\* err := cfg.Validate()
CallValidate ==
    /\ cfg.step \in {"new", "defaults"}
    /\ cfg' = [cfg EXCEPT !.step = "validated", !.err = Validate(cfg.config)]
    /\ UNCHANGED <<upVars, appVars, net, ui, cacheVars, refreshPc, buildVars, cluster, calls, enrichVars, bgVars>>

ConfigNext ==
    \/ CallSetDefaults
    \/ CallValidate

SpecConfig == InitConfig /\ [][ConfigNext]_vars

\* SpecStartup: the process of main(), with a configuration in the
\* environment, in a config file and in the flags, each complete or not.
EnvConfigs ==
    {Config("", "", "", "", "", ""),
     Config("https://env.example.com:8006", "", "", "", "", ""),
     Config("https://env.example.com:8006", "envuser", "envpass", "", "", "pve")}

FileConfigs ==
    {Config("https://file.example.com:8006", "fileuser", "filepass", "", "", "pam"),
     Config("https://file.example.com:8006", "apiuser", "", "mytoken", "secret", "")}

FlagConfigs ==
    {Config("", "", "", "", "", ""),
     Config("https://flag.example.com:8006", "", "", "", "", ""),
     Config("", "flaguser", "", "", "", "")}

InitStartup ==
    /\ upStatus = <<>>
    /\ upResources = <<>>
    /\ upAnswers = VmResponses
    /\ upFixed = NoFixed
    /\ fast = FALSE
    /\ hasCallback = FALSE
    /\ pc = "none"
    /\ cluster = NewCluster
    /\ nodeTask = <<>>
    /\ nodeErrs = 0
    /\ ret = NoReturn
    /\ enrichPc = "none"
    /\ toQueue = <<>>
    /\ vmChan = <<>>
    /\ worker = [w \in Workers |-> OffWorker]
    /\ vmErrs = 0
    /\ enrichErr = FALSE
    /\ calls = [id \in GuestIds |-> 0]
    /\ bgPc = "none"
    /\ retryLeft = <<>>
    /\ cbCount = 0
    /\ now = 0
    /\ cache = EmptyCache
    /\ lastGet = NoGet
    /\ refreshPc = [k \in RefreshIds |-> "none"]
    /\ ui = EmptyUi
    /\ net = NoNet
    /\ cfg = NoConfig
    /\ vnc = <<>>
    /\ vmTask = <<>>
    /\ app = NoAppState
    /\ pool = NoPool
    /\ shell = NoShell
    /\ \E env \in EnvConfigs, file \in FileConfigs, hasFile \in BOOLEAN,
          flags \in FlagConfigs, version \in BOOLEAN, wizard \in BOOLEAN :
         proc = [NoProc EXCEPT !.pc = "main", !.env = env,
                               !.file = IF hasFile THEN file ELSE NoProc.file,
                               !.hasFile = hasFile, !.flags = flags,
                               !.version = version, !.wizard = wizard]

\* main(): --version prints and returns; otherwise the config is built from
\* the environment, the flags and the file; --config-wizard runs the wizard
\* and exits; otherwise the defaults are set and the config is validated.
Main ==
    /\ proc.pc = "main"
    /\ IF proc.version
       THEN proc' = [proc EXCEPT !.pc = "exited", !.code = 0]
       ELSE LET flagged == ParseFlags(NewConfig(proc.env), proc.flags)
                merged == IF proc.hasFile THEN MergeWithFile(flagged, proc.file)
                          ELSE flagged
            IN IF proc.wizard
               THEN proc' = [proc EXCEPT !.pc = "exited", !.code = 0, !.config = merged]
               ELSE proc' = [proc EXCEPT !.config = SetDefaults(merged),
                                         !.loaded = "main",
                                         !.pc = IF Validate(SetDefaults(merged)) # ""
                                                THEN "onboardingFlow"
                                                ELSE "startMainApp"]
    /\ UNCHANGED <<coreVars, vnc, vmTask, app, pool, shell>>

\* onboardingFlow: the first prompt, and config.CreateDefaultConfigFile().
\* A refusal exits with 0; log.Fatalf exits with 1.
OnboardingCreate ==
    /\ proc.pc = "onboardingFlow"
    /\ \E answer \in BOOLEAN, created \in BOOLEAN :
         IF ~answer
         THEN proc' = [proc EXCEPT !.pc = "exited", !.code = 0]
         ELSE IF ~created
         THEN proc' = [proc EXCEPT !.pc = "exited", !.code = 1, !.createErr = "error"]
         ELSE proc' = [proc EXCEPT !.pc = "created", !.createErr = "nil"]
    /\ UNCHANGED <<coreVars, vnc, vmTask, app, pool, shell>>

\* onboardingFlow: the second prompt; the wizard edits the new file, saved
\* or not.
OnboardingEdit ==
    /\ proc.pc = "created"
    /\ \E answer \in BOOLEAN, file \in FileConfigs \cup {NoProc.file} :
         IF ~answer
         THEN proc' = [proc EXCEPT !.pc = "exited", !.code = 0]
         ELSE proc' = [proc EXCEPT !.pc = "edited", !.file = file, !.hasFile = TRUE]
    /\ UNCHANGED <<coreVars, vnc, vmTask, app, pool, shell>>

\* onboardingFlow: the third prompt; the config is made again from the
\* environment and the new file.
OnboardingProceed ==
    /\ proc.pc = "edited"
    /\ \E answer \in BOOLEAN :
         IF ~answer
         THEN proc' = [proc EXCEPT !.pc = "exited", !.code = 0]
         ELSE proc' = [proc EXCEPT !.pc = "startMainApp", !.loaded = "onboardingFlow",
                          !.config = SetDefaults(MergeWithFile(NewConfig(proc.env), proc.file))]
    /\ UNCHANGED <<coreVars, vnc, vmTask, app, pool, shell>>

\* startMainApp: the application runs until it quits or its startup
\* verification fails.
StartMainApp ==
    /\ proc.pc = "startMainApp"
    /\ \E err \in RunWithStartupVerificationResults :
         proc' = [proc EXCEPT !.pc = "exited", !.verifyErr = err,
                              !.code = startMainAppExit(err)]
    /\ UNCHANGED <<coreVars, vnc, vmTask, app, pool, shell>>

StartupNext ==
    \/ Main
    \/ OnboardingCreate
    \/ OnboardingEdit
    \/ OnboardingProceed
    \/ StartMainApp

SpecStartup == InitStartup /\ [][StartupNext]_vars

\* SpecVnc: up to MaxVncCalls calls of GetVNCProxyWithWebSocket, for guests
\* of the types qemu and lxc and of a type that is neither.
VncTypes == {VMTypeQemu, VMTypeLXC, "openvz"}

VncGuests ==
    {NewVM(id, node, type, VMStatusRunning) :
        id \in {100, 101}, node \in {"a", "b"}, type \in VncTypes}

InitVnc ==
    /\ upStatus = <<>>
    /\ upResources = <<>>
    /\ upAnswers = VmResponses
    /\ upFixed = NoFixed
    /\ fast = FALSE
    /\ hasCallback = FALSE
    /\ pc = "none"
    /\ cluster = NewCluster
    /\ nodeTask = <<>>
    /\ nodeErrs = 0
    /\ ret = NoReturn
    /\ enrichPc = "none"
    /\ toQueue = <<>>
    /\ vmChan = <<>>
    /\ worker = [w \in Workers |-> OffWorker]
    /\ vmErrs = 0
    /\ enrichErr = FALSE
    /\ calls = [id \in GuestIds |-> 0]
    /\ bgPc = "none"
    /\ retryLeft = <<>>
    /\ cbCount = 0
    /\ NoRefresh

\* c.GetVNCProxyWithWebSocket(vm)
CallGetVNCProxyWithWebSocket ==
    /\ Len(vnc) < MaxVncCalls
    /\ \E vm \in VncGuests, postOk \in BOOLEAN :
         vnc' = Append(vnc, [vm |-> vm, postOk |-> postOk,
                             res |-> GetVNCProxyWithWebSocket(vm, postOk)])
    /\ UNCHANGED <<coreVars, proc, vmTask, app, pool, shell>>

VncNext ==
    \/ CallGetVNCProxyWithWebSocket

SpecVnc == InitVnc /\ [][VncNext]_vars

\* SpecLock: GetVmStatus is called for two running guests, each a QEMU guest
\* or a container; each request is answered from the cache or goes to the
\* server and succeeds or fails.
LockGuests == {100, 101}

InitLock ==
    /\ upStatus = <<>>
    /\ upResources = <<>>
    /\ upAnswers = VmResponses
    /\ upFixed = NoFixed
    /\ fast = FALSE
    /\ hasCallback = FALSE
    /\ pc = "none"
    /\ cluster = NewCluster
    /\ nodeTask = <<>>
    /\ nodeErrs = 0
    /\ ret = NoReturn
    /\ enrichPc = "none"
    /\ toQueue = <<>>
    /\ vmChan = <<>>
    /\ worker = [w \in Workers |-> OffWorker]
    /\ vmErrs = 0
    /\ enrichErr = FALSE
    /\ calls = [id \in GuestIds |-> 0]
    /\ bgPc = "none"
    /\ retryLeft = <<>>
    /\ cbCount = 0
    /\ now = 0
    /\ cache = EmptyCache
    /\ lastGet = NoGet
    /\ refreshPc = [k \in RefreshIds |-> "none"]
    /\ ui = EmptyUi
    /\ net = NoNet
    /\ cfg = NoConfig
    /\ proc = NoProc
    /\ vnc = <<>>
    /\ app = NoAppState
    /\ pool = NoPool
    /\ shell = NoShell
    /\ vmTask \in [LockGuests -> {IdleVmTask(VMTypeQemu), IdleVmTask(VMTypeLXC)}]

\* vm.mu.Lock(); defer vm.mu.Unlock()
LockVM(id) ==
    /\ vmTask[id].pc = "idle"
    /\ vmTask' = [vmTask EXCEPT ![id] = [@ EXCEPT !.pc = "status", !.locked = TRUE]]
    /\ UNCHANGED <<coreVars, proc, vnc, app, pool, shell>>

\* c.GetWithCache(endpoint, ...) and the requests of the agent and of the
\* container: a cached answer is used at once, otherwise the request goes to
\* the server.
RequestVM(id) ==
    /\ vmTask[id].pc \in {"status", "config", "interfaces", "fsinfo"}
    /\ ~vmTask[id].http
    /\ \E hit \in BOOLEAN, agent \in BOOLEAN :
         vmTask' = [vmTask EXCEPT ![id] = IF hit THEN AfterAnswer(@, TRUE, agent)
                                          ELSE [@ EXCEPT !.http = TRUE]]
    /\ UNCHANGED <<coreVars, proc, vnc, app, pool, shell>>

\* The server answers the request, or the request fails.
AnswerVM(id) ==
    /\ vmTask[id].http
    /\ \E ok \in BOOLEAN, agent \in BOOLEAN :
         vmTask' = [vmTask EXCEPT ![id] = AfterAnswer([@ EXCEPT !.http = FALSE], ok, agent)]
    /\ UNCHANGED <<coreVars, proc, vnc, app, pool, shell>>

LockNext ==
    \/ \E id \in LockGuests : LockVM(id)
    \/ \E id \in LockGuests : RequestVM(id)
    \/ \E id \in LockGuests : AnswerVM(id)

SpecLock == InitLock /\ [][LockNext]_vars

\* SpecRetry: a fast build of a one-node cluster with two running guests,
\* from the cluster resources phase on; the agent of a QEMU guest answers, is
\* down, or returns only interfaces that the filter drops.
InitRetry ==
    /\ upStatus = StatusItems(1, <<1>>)
    /\ upResources \in
         {<<GuestItem(101, "a", t1, VMStatusRunning), GuestItem(102, "a", t2, VMStatusRunning)>> :
              t1 \in {VMTypeQemu, VMTypeLXC}, t2 \in {VMTypeQemu}}
    /\ upAnswers = AllVmResponses
    /\ upFixed = NoFixed
    /\ fast = TRUE
    /\ hasCallback = TRUE
    /\ pc = "p3"
    /\ cluster = AfterNodeStatuses(1)
    /\ nodeTask = <<"ok">>
    /\ nodeErrs = 0
    /\ ret = NoReturn
    /\ enrichPc = "none"
    /\ toQueue = <<>>
    /\ vmChan = <<>>
    /\ worker = [w \in Workers |-> OffWorker]
    /\ vmErrs = 0
    /\ enrichErr = FALSE
    /\ calls = [id \in GuestIds |-> 0]
    /\ bgPc = "none"
    /\ retryLeft = <<>>
    /\ cbCount = 0
    /\ NoRefresh

RetryNext ==
    \/ ClusterResources
    \/ Totals
    \/ Return
    \/ EnrichNext
    \/ BgNext

SpecRetry == InitRetry /\ [][RetryNext]_vars

\* SpecBackground: the background fetches of the UI: a manual refresh, up to
\* MaxFetches script fetches, each of which the user can dismiss on the
\* loading page, and a VNC connection; their goroutines hand their results to
\* the UI thread with QueueUpdateDraw.
InitBackground ==
    /\ upStatus = UiStatusItems(<<"a", "b">>)
    /\ upResources = <<UiGuestItem(101, "a", <<"A", "b">>, VMStatusStopped),
                       UiGuestItem(102, "b", <<"b">>, VMStatusRunning)>>
    /\ upAnswers = VmResponses
    /\ upFixed = NoFixed
    /\ fast = FALSE
    /\ hasCallback = FALSE
    /\ pc = "none"
    /\ cluster = NewCluster
    /\ nodeTask = <<>>
    /\ nodeErrs = 0
    /\ ret = NoReturn
    /\ enrichPc = "none"
    /\ toQueue = <<>>
    /\ vmChan = <<>>
    /\ worker = [w \in Workers |-> OffWorker]
    /\ vmErrs = 0
    /\ enrichErr = FALSE
    /\ calls = [id \in GuestIds |-> 0]
    /\ bgPc = "none"
    /\ retryLeft = <<>>
    /\ cbCount = 0
    /\ now = 0
    /\ cache = EmptyCache
    /\ lastGet = NoGet
    /\ refreshPc = [k \in RefreshIds |-> IF k = 1 THEN "none" ELSE "done"]
    /\ net = NoNet
    /\ cfg = NoConfig
    /\ NoApp
    /\ ui = [DrawRefresh(EmptyUi,
                         Fetched(UiStatusItems(<<"b", "a">>),
                                 <<UiGuestItem(101, "a", <<"A", "b">>, VMStatusRunning)>>),
                         NoSaved)
               EXCEPT !.last = NoLast]

\* fetchScriptsForCategory, on the UI thread: nothing happens while a fetch is
\* loading; otherwise the loading page is shown and the goroutine is started.
FetchScriptsForCategory(category) ==
    /\ app.page = "categories"
    /\ Len(app.fetches) < MaxFetches
    /\ app' = IF app.isLoading THEN app
              ELSE [app EXCEPT !.isLoading = TRUE, !.header = "loading",
                               !.page = "loading", !.focus = "pages",
                               !.fetches = Append(@, [category |-> category, st |-> "running",
                                                      ok |-> FALSE, dismissed |-> FALSE])]
    /\ UNCHANGED <<coreVars, proc, vnc, vmTask, pool, shell>>

\* The input capture of the loading page, on Backspace, Escape or h: the
\* loading is cancelled and the categories are shown again.
CancelLoading ==
    /\ app.page = "loading"
    /\ app' = [app EXCEPT !.isLoading = FALSE, !.header = "", !.page = "categories",
                          !.focus = "categoryList",
                          !.fetches = [i \in DOMAIN @ |->
                                         IF @[i].st # "drawn"
                                         THEN [@[i] EXCEPT !.dismissed = TRUE] ELSE @[i]]]
    /\ UNCHANGED <<coreVars, proc, vnc, vmTask, pool, shell>>

\* The goroutine of a fetch: scripts.GetScriptsByCategory returns and the
\* function that shows the result is queued.
ScriptsFetched(i) ==
    /\ i \in DOMAIN app.fetches
    /\ app.fetches[i].st = "running"
    /\ \E ok \in BOOLEAN :
         app' = [app EXCEPT !.fetches[i].st = "queued", !.fetches[i].ok = ok,
                            !.jobs = Append(@, [kind |-> "scripts", id |-> i])]
    /\ UNCHANGED <<coreVars, proc, vnc, vmTask, pool, shell>>

\* The input capture of the script list, on Backspace or h.
ScriptsBack ==
    /\ app.page = "scripts"
    /\ app' = [app EXCEPT !.page = "categories", !.focus = "categoryList"]
    /\ UNCHANGED <<coreVars, proc, vnc, vmTask, pool, shell>>

\* connectToNodeVNC and connectToVMVNC, on the UI thread.
ConnectVNC ==
    /\ app.conn.st = "none"
    /\ app' = [app EXCEPT !.header = "loading", !.conn.st = "running"]
    /\ UNCHANGED <<coreVars, proc, vnc, vmTask, pool, shell>>

\* The goroutine of a connection: vncService.ConnectToNode or ConnectToVM
\* returns and the function that shows the outcome is queued.
VNCConnected ==
    /\ app.conn.st = "running"
    /\ \E ok \in BOOLEAN :
         app' = [app EXCEPT !.conn.st = "queued", !.conn.ok = ok,
                            !.jobs = Append(@, [kind |-> "vnc", id |-> 0])]
    /\ UNCHANGED <<coreVars, proc, vnc, vmTask, pool, shell>>

\* A fetch whose function has run.
DrawnFetch == [category |-> "", st |-> "drawn", ok |-> FALSE, dismissed |-> FALSE]

\* The UI thread runs the first function of the queue.
RunDrawJob ==
    /\ app.jobs # <<>>
    /\ LET job == Head(app.jobs)
           a == [app EXCEPT !.jobs = Tail(@)]
       IN app' = IF job.kind = "scripts"
                 THEN ScriptsDraw([a EXCEPT !.fetches[job.id] = DrawnFetch],
                                  app.fetches[job.id])
                 ELSE VncDraw([a EXCEPT !.conn.st = "drawn"], app.conn)
    /\ UNCHANGED <<coreVars, proc, vnc, vmTask, pool, shell>>

BackgroundNext ==
    \/ ManualRefresh
    \/ \E k \in RefreshIds : RefreshRequest(k)
    \/ \E k \in RefreshIds : RefreshDraw(k)
    \/ \E category \in ScriptCategories : FetchScriptsForCategory(category)
    \/ CancelLoading
    \/ \E i \in 1..MaxFetches : ScriptsFetched(i)
    \/ ScriptsBack
    \/ ConnectVNC
    \/ VNCConnected
    \/ RunDrawJob

SpecBackground == InitBackground /\ [][BackgroundNext]_vars

\* SpecOrder: a build, slow or fast, of a two-node cluster with a running QEMU
\* guest on the first node and a second QEMU guest, running or stopped, on the
\* first node, on the second node or on a node that /cluster/status does not
\* list; the outcome of every node status request and
\* the answer to every guest are fixed before the build starts.
OrderAnswers ==
    {[ok |-> FALSE, config |-> "off", agent |-> "down"],
     [ok |-> TRUE, config |-> "on", agent |-> "down"],
     [ok |-> TRUE, config |-> "on", agent |-> "up"]}

OrderGuests == {101, 102}

InitOrder ==
    /\ upStatus \in {StatusItems(2, onl) : onl \in {<<1, 1>>, <<1, 0>>}}
    /\ upResources \in {<<GuestItem(101, "a", VMTypeQemu, VMStatusRunning),
                          GuestItem(102, n, VMTypeQemu, st)>> :
                            n \in {"a", "b", "c"}, st \in {VMStatusRunning, VMStatusStopped}}
    /\ upAnswers = {}
    /\ upFixed \in {[fixed |-> TRUE, node |-> nd, vm |-> vm] :
                       nd \in [1..2 -> BOOLEAN],
                       vm \in [OrderGuests -> OrderAnswers]}
    /\ fast \in BOOLEAN
    /\ hasCallback = fast
    /\ BuildStart
    /\ NoRefresh

OrderNext ==
    \/ BasicStatus
    \/ \E i \in 1..2 : UpdateNodeMetrics(i)
    \/ NodeStatusesDone
    \/ ClusterResources
    \/ Totals
    \/ Return
    \/ EnrichNext
    \/ BgNext

SpecOrder == InitOrder /\ [][OrderNext]_vars

\* SpecTTL: GetVmStatus is called for one guest again and again while time
\* passes second by second; its requests go through the cache.
TTLNext ==
    \/ TickOne
    \/ GetVmStatusRequests

SpecTTL == InitRefresh /\ [][TTLNext]_vars

\* SpecChannels: one EnrichVMs call on a cluster whose online node has no
\* guest, or a stopped guest and up to ChanGuests running ones, and whose
\* offline node has a running guest; the channels hold ChanCap entries. Every
\* goroutine that can take a step eventually takes one.
ChannelsCluster(n) ==
    [NewCluster EXCEPT
        !.TotalNodes = 2,
        !.Nodes = <<[NewNode("a", TRUE) EXCEPT
                        !.VMs = IF n = 0 THEN <<>>
                                ELSE <<NewVM(100, "a", VMTypeQemu, VMStatusStopped)>>
                                     \o [k \in 1..n |->
                                            NewVM(100 + k, "a", VMTypeLXC, VMStatusRunning)]],
                    [NewNode("b", FALSE) EXCEPT
                        !.VMs = <<NewVM(101 + ChanGuests, "b", VMTypeLXC,
                                        VMStatusRunning)>>]>>]

InitChannels ==
    /\ upStatus = <<>>
    /\ upResources = <<>>
    /\ upAnswers = VmResponses
    /\ upFixed = NoFixed
    /\ fast = FALSE
    /\ hasCallback = FALSE
    /\ pc = "caller"
    /\ cluster \in {ChannelsCluster(n) : n \in 0..ChanGuests}
    /\ nodeTask = <<>>
    /\ nodeErrs = 0
    /\ ret = NoReturn
    /\ enrichPc = "none"
    /\ toQueue = <<>>
    /\ vmChan = <<>>
    /\ worker = [w \in Workers |-> OffWorker]
    /\ vmErrs = 0
    /\ enrichErr = FALSE
    /\ calls = [id \in GuestIds |-> 0]
    /\ bgPc = "none"
    /\ retryLeft = <<>>
    /\ cbCount = 0
    /\ now = 0
    /\ cache = EmptyCache
    /\ lastGet = NoGet
    /\ refreshPc = [k \in RefreshIds |-> "none"]
    /\ ui = EmptyUi
    /\ net = NoNet
    /\ cfg = NoConfig
    /\ proc = NoProc
    /\ vnc = <<>>
    /\ vmTask = <<>>
    /\ app = NoAppState
    /\ pool = [NoPool EXCEPT !.pc = "call"]
    /\ shell = NoShell

\* The goroutine that called EnrichVMs.
PoolCaller ==
    \/ EnrichVMsStart
    \/ EnrichVMsQueue
    \/ EnrichVMsClose
    \/ EnrichVMsWait
    \/ EnrichVMsReturn

\* The goroutine of worker w.
PoolWorkerStep(w) ==
    \/ PoolReceive(w)
    \/ PoolGetVmStatus(w)
    \/ PoolSendErr(w)
    \/ PoolWorkerExit(w)

\* The goroutine of the error collector.
PoolCollector ==
    \/ CollectErr
    \/ CollectorExit

ChannelsNext ==
    \/ PoolCaller
    \/ \E w \in Workers : PoolWorkerStep(w)
    \/ PoolCollector

SpecChannels ==
    /\ InitChannels
    /\ [][ChannelsNext]_vars
    /\ WF_vars(PoolCaller)
    /\ \A w \in Workers : WF_vars(PoolWorkerStep(w))
    /\ WF_vars(PoolCollector)

\* SpecWorker: a worker of EnrichVMs runs its loop body up to MaxPasses times
\* for one running guest, QEMU or LXC, with or without an address and disk
\* values from /cluster/resources; every request of a call fails or answers.
WorkerRaws ==
    {<<>>, <<Iface("eth0", "aa:bb:cc:dd:ee:ff", FALSE, <<Addr4>>)>>}

InitWorker ==
    /\ upStatus = StatusItems(1, <<1>>)
    /\ upResources = <<>>
    /\ upAnswers = VmResponses
    /\ upFixed = NoFixed
    /\ fast = FALSE
    /\ hasCallback = FALSE
    /\ pc = "caller"
    /\ cluster = AfterNodeStatuses(1)
    /\ nodeTask = <<"ok">>
    /\ nodeErrs = 0
    /\ ret = NoReturn
    /\ enrichPc = "none"
    /\ toQueue = <<>>
    /\ vmChan = <<>>
    /\ worker = [w \in Workers |-> OffWorker]
    /\ vmErrs = 0
    /\ enrichErr = FALSE
    /\ calls = [id \in GuestIds |-> 0]
    /\ bgPc = "none"
    /\ retryLeft = <<>>
    /\ cbCount = 0
    /\ now = 0
    /\ cache = EmptyCache
    /\ lastGet = NoGet
    /\ refreshPc = [k \in RefreshIds |-> "none"]
    /\ ui = EmptyUi
    /\ cfg = NoConfig
    /\ NoApp
    /\ \E type \in {VMTypeQemu, VMTypeLXC}, ip \in {"", "10.0.0.5"}, d \in {0, 3} :
         net = [step |-> "listed", passes |-> 0,
                vm |-> WithDisk(NetVM(type, ip), d, 2 * d),
                before |-> WithDisk(NetVM(type, ip), d, 2 * d),
                status |-> CHOOSE st \in StatusAnswers : st.ok /\ st.hasData /\ st.disk = 0,
                err |-> FALSE]

\* One iteration of for vm := range vmChan for the guest.
CallWorkerBody ==
    /\ net.passes < MaxPasses
    /\ \E st \in StatusAnswers, config \in NetConfigs(net.vm.Type),
          raw \in WorkerRaws, fs \in FsAnswers :
         LET res == WorkerBody(net.vm, st, config, raw, fs)
         IN net' = [step |-> "called", passes |-> net.passes + 1,
                    vm |-> res.vm, before |-> net.vm, status |-> st,
                    err |-> res.err]
    /\ UNCHANGED <<upVars, appVars, cfg, ui, cacheVars, refreshPc, buildVars, cluster, calls, enrichVars, bgVars>>

WorkerNext == CallWorkerBody

SpecWorker == InitWorker /\ [][WorkerNext]_vars

\* SpecShell: the operator asks up to MaxVncRequests times for a VNC
\* connection to the selected node (none, an online one, an offline one) or
\* guest (none or one), and confirms or cancels the warning dialogs.
NodeTargets ==
    {NoTarget, VncTarget("node", "a", TRUE), VncTarget("node", "b", FALSE)}

VMTargets == {NoTarget, VncTarget("vm", "101", FALSE)}

InitShell ==
    /\ upStatus = <<>>
    /\ upResources = <<>>
    /\ upAnswers = VmResponses
    /\ upFixed = NoFixed
    /\ fast = FALSE
    /\ hasCallback = FALSE
    /\ pc = "none"
    /\ cluster = NewCluster
    /\ nodeTask = <<>>
    /\ nodeErrs = 0
    /\ ret = NoReturn
    /\ enrichPc = "none"
    /\ toQueue = <<>>
    /\ vmChan = <<>>
    /\ worker = [w \in Workers |-> OffWorker]
    /\ vmErrs = 0
    /\ enrichErr = FALSE
    /\ calls = [id \in GuestIds |-> 0]
    /\ bgPc = "none"
    /\ retryLeft = <<>>
    /\ cbCount = 0
    /\ NoRefresh

\* a.openNodeVNC()
OpenNodeVNC ==
    /\ shell.requests < MaxVncRequests
    /\ \E target \in NodeTargets, available \in BOOLEAN :
         shell' = openVNC(shell, target, available)
    /\ UNCHANGED <<coreVars, proc, vnc, vmTask, app, pool>>

\* a.openVMVNC()
OpenVMVNC ==
    /\ shell.requests < MaxVncRequests
    /\ \E target \in VMTargets, available \in BOOLEAN :
         shell' = openVNC(shell, target, available)
    /\ UNCHANGED <<coreVars, proc, vnc, vmTask, app, pool>>

\* The operator confirms the warning dialog i: the callback of showVNCWarning
\* sets vncWarningShown and connects.
ConfirmVNCWarning(i) ==
    /\ i \in DOMAIN shell.dialogs
    /\ shell' = connectToVNC(
                   [shell EXCEPT !.vncWarningShown = TRUE,
                                 !.dialogs = SubSeq(@, 1, i - 1) \o SubSeq(@, i + 1, Len(@))],
                   shell.dialogs[i])
    /\ UNCHANGED <<coreVars, proc, vnc, vmTask, app, pool>>

\* The operator cancels the warning dialog i.
CancelVNCWarning(i) ==
    /\ i \in DOMAIN shell.dialogs
    /\ shell' = [shell EXCEPT !.dialogs = SubSeq(@, 1, i - 1) \o SubSeq(@, i + 1, Len(@))]
    /\ UNCHANGED <<coreVars, proc, vnc, vmTask, app, pool>>

ShellNext ==
    \/ OpenNodeVNC
    \/ OpenVMVNC
    \/ \E i \in 1..MaxVncRequests : ConfirmVNCWarning(i)
    \/ \E i \in 1..MaxVncRequests : CancelVNCWarning(i)

SpecShell == InitShell /\ [][ShellNext]_vars

\* -------------------------------------------------------------- claims

\* The names of the node records of a /cluster/status response, in order.
StatusNodeNames(items) ==
    LET ns == SelectSeq(items, LAMBDA it : it.type = "node")
    IN [k \in DOMAIN ns |-> ns[k].name]

SnapshotNodeNames(c) == [i \in DOMAIN c.Nodes |-> c.Nodes[i].Name]

FailedNodes == {i \in DOMAIN nodeTask : nodeTask[i] = "failed"}
OkNodes == {i \in DOMAIN nodeTask : nodeTask[i] = "ok"}

\* C1: phase 2 fails the build ("all nodes unreachable") only if the status
\* request of every node failed; when at least one request succeeded the build
\* is not stopped by phase 2 (it ends with a snapshot unless the later
\* /cluster/resources request fails), and a returned snapshot lists exactly the
\* nodes of /cluster/status, in order.
C1_HardErrorOnlyIfEveryNodeFails ==
    /\ ret.err.kind = "all nodes unreachable" =>
           /\ nodeTask # <<>>
           /\ \A i \in DOMAIN nodeTask : nodeTask[i] = "failed"
    /\ (pc = "done" /\ OkNodes # {}) =>
           \/ ret.cluster
           \/ ret.err.kind = "cluster resources"
    /\ ret.cluster => SnapshotNodeNames(cluster) = StatusNodeNames(upStatus)

\* C1: a snapshot was returned although one node failed and another answered.
C1_Witness ==
    /\ ret.returned /\ ret.cluster
    /\ FailedNodes # {} /\ OkNodes # {}

\* C2, as stated: with some but not all nodes failing, the build returns the
\* snapshot together with a PartialFailure error counting the failed nodes.
C2_PartialFailureReturned ==
    (ret.cluster /\ FailedNodes # {} /\ OkNodes # {}) =>
        ret.err = [kind |-> "PartialFailure", count |-> Cardinality(FailedNodes)]

\* C2, amended: with some but not all nodes failing, a build that returns a
\* snapshot returns it with a nil error; the failed nodes are in the snapshot,
\* marked offline and left out of OnlineNodes, and their number is only the
\* length of the error list that enrichNodeStatuses logs.
C2_PartialFailureOnlyLogged ==
    (ret.cluster /\ FailedNodes # {} /\ OkNodes # {}) =>
        /\ ret.err = NilErr
        /\ nodeErrs = Cardinality(FailedNodes)
        /\ \A i \in FailedNodes : ~cluster.Nodes[i].Online
        /\ cluster.OnlineNodes = Cardinality(OkNodes)
        /\ Len(cluster.Nodes) = Len(nodeTask)

\* C2: one node of MaxNodes failed, the others answered, the snapshot is returned.
C2_Witness ==
    /\ ret.cluster
    /\ Cardinality(FailedNodes) = 1
    /\ Cardinality(OkNodes) = Len(nodeTask) - 1
    /\ Len(nodeTask) >= 2

\* The guests for which at least one GetVmStatus call was made and none has
\* succeeded: their call in the first pass failed (a retry needs AgentEnabled,
\* which only a successful call sets).
FailedGuests(c) ==
    {r \in Range(AllRefs(c)) : calls[VMAt(c, r).ID] > 0 /\ ~VMAt(c, r).Enriched}

\* C3: onEnrichmentComplete is invoked at most once, only by a fast build that
\* returned a snapshot and was given a callback, and only when the first pass
\* (EnrichVMs has returned) and the retry pass (no guest left to visit) are
\* over; once the background goroutine has finished it has been invoked exactly
\* once, whatever errors the guests' requests returned.
C3_CallbackOnceAfterBothPasses ==
    /\ cbCount <= 1
    /\ cbCount = 1 =>
           /\ fast /\ hasCallback
           /\ pc \in {"return", "done"}
           /\ enrichPc = "returned"
           /\ bgPc = "done"
           /\ retryLeft = <<>>
    /\ (hasCallback /\ bgPc = "done") => cbCount = 1

\* C3: the callback was invoked although a guest's enrichment failed in the
\* first pass and a guest was visited again by the retry pass.
C3_Witness ==
    /\ cbCount = 1
    /\ enrichErr
    /\ \E id \in GuestIds : calls[id] >= 2

\* Everything but the guests' enrichment fields is the same in c and d.
OnlyGuestsEnriched(c, d) ==
    /\ [d EXCEPT !.Nodes = <<>>] = [c EXCEPT !.Nodes = <<>>]
    /\ Len(d.Nodes) = Len(c.Nodes)
    /\ \A i \in DOMAIN c.Nodes :
         /\ [d.Nodes[i] EXCEPT !.VMs = <<>>] = [c.Nodes[i] EXCEPT !.VMs = <<>>]
         /\ Len(d.Nodes[i].VMs) = Len(c.Nodes[i].VMs)
         /\ \A j \in DOMAIN c.Nodes[i].VMs :
              LET v == c.Nodes[i].VMs[j]
                  u == d.Nodes[i].VMs[j]
              IN <<u.ID, u.Node, u.Type, u.Status>> = <<v.ID, v.Node, v.Type, v.Status>>

\* C4, as stated: once the build has handed the snapshot to its caller no field
\* of the snapshot is written, in fast mode as in slow mode.
C4_NoWriteAfterReturn ==
    [][ret.cluster => cluster' = cluster]_vars

\* C4, amended: the slow build writes no field of the snapshot after it has
\* returned it. The fast build returns the snapshot before the guests are
\* enriched: its background goroutine then writes the guests' enrichment fields
\* in place (nothing else of the snapshot), and writes nothing any more once it
\* has finished, which is when onEnrichmentComplete is invoked.
C4_WritesAfterReturnOnlyFastGuests ==
    [][ret.cluster =>
          /\ ~fast => cluster' = cluster
          /\ bgPc = "done" => cluster' = cluster
          /\ OnlyGuestsEnriched(cluster, cluster')]_vars

\* C4: the fast build has returned the snapshot with no guest enriched yet, and
\* a worker of the background pass is inside GetVmStatus.
C4_Witness ==
    /\ fast /\ ret.cluster
    /\ \A id \in GuestIds : calls[id] = 0
    /\ Busy # {}

\* The guests the queueing loop has sent or will send that a worker has
\* received and whose GetVmStatus call has not returned.
InGetVmStatus ==
    {r \in Range(QueueOrder(cluster)) :
        /\ enrichPc \in {"queue", "wait"}
        /\ r \notin Range(toQueue)
        /\ r \notin Range(vmChan)
        /\ calls[VMAt(cluster, r).ID] = 0}

\* C5: at any instant at most maxConcurrentRequests (5) guests are inside a
\* GetVmStatus call of the enricher's workers, however many guests are queued.
C5_AtMostFiveConcurrent ==
    /\ Cardinality(InGetVmStatus) <= 5
    /\ Cardinality(Busy) = Cardinality(InGetVmStatus)

\* C5: five calls are executing while more guests wait in the channel or in
\* the queueing loop.
C5_Witness ==
    /\ Cardinality(InGetVmStatus) = 5
    /\ Len(vmChan) + Len(toQueue) >= 1

\* C6: when EnrichVMs has returned, every running guest of an online node has
\* had its GetVmStatus call, however many of the calls failed; the error of
\* EnrichVMs is non-nil exactly when at least one call failed; and a build that
\* got so far returns the snapshot with a nil error.
C6_GuestFailureIsolated ==
    /\ enrichPc = "returned" =>
           /\ \A r \in Range(QueueOrder(cluster)) : calls[VMAt(cluster, r).ID] >= 1
           /\ enrichErr <=> FailedGuests(cluster) # {}
    /\ (pc = "done" /\ enrichPc = "returned" /\ ~fast) =>
           ret.cluster /\ ret.err = NilErr

\* C6: the slow build returned the snapshot although one guest's enrichment
\* failed and another's succeeded.
C6_Witness ==
    /\ ~fast /\ ret.cluster
    /\ enrichErr
    /\ \E r \in Range(AllRefs(cluster)) : VMAt(cluster, r).Enriched

\* C7, as stated: a refresh requested while another is in flight starts no
\* second build, so at most one refresh build is running at any time.
C7_AtMostOneRefreshBuild ==
    Cardinality(RunningRefresh) <= 1

\* C7, amended: a refresh requested while another is in flight is not
\* coalesced: manualRefresh returns at once, but every request starts its own
\* goroutine and its own build, whatever the state of the earlier ones, so
\* several refresh builds can run at the same time.
C7_EveryRequestStartsABuild ==
    (\E k \in RefreshIds : refreshPc[k] = "none") => ENABLED ManualRefresh

\* C7: two refresh builds are running at the same time.
C7_Witness ==
    Cardinality(RunningRefresh) >= 2

\* The storage records of /cluster/resources whose node the snapshot has.
SnapshotStorage ==
    {r \in Range(upResources) :
        r.type = "storage" /\ NodeIndex(cluster, r.node) # 0}

RECURSIVE SumMaxDisk(_)
SumMaxDisk(S) ==
    IF S = {} THEN 0
    ELSE LET r == CHOOSE x \in S : TRUE IN r.maxdisk + SumMaxDisk(S \ {r})

\* One record for every distinct shared storage id.
OncePerSharedId ==
    LET shared == {r \in SnapshotStorage : r.shared = 1}
    IN {CHOOSE r \in shared : r.id = id : id \in {q.id : q \in shared}}

\* Sum over the distinct shared ids, once each, plus sum over the non-shared
\* (node, storage) entries.
DedupedCapacity ==
    SumMaxDisk(OncePerSharedId)
    + SumMaxDisk({r \in SnapshotStorage : r.shared = 0})

\* C8: once the totals are computed, cluster.StorageTotal is the sum of maxdisk
\* over the distinct shared storage ids, each counted once however many nodes
\* report it, plus the sum of maxdisk over every non-shared (node, storage)
\* entry.
C8_StorageTotalDeduplicated ==
    (pc = "return" \/ ret.cluster) => cluster.StorageTotal = DedupedCapacity

\* C8: the example: "nas" (1 TB, shared) on nodes a and b and "local" (500 GB,
\* not shared) on each of them give 2 TB, in units of 500 GB.
C8_Witness ==
    /\ ret.cluster
    /\ upResources = <<StorageItem("nas", "a", 1, 2), StorageItem("local", "a", 0, 1),
                       StorageItem("nas", "b", 1, 2), StorageItem("local", "b", 0, 1)>>
    /\ cluster.StorageTotal = 4

\* The entry the last request found was younger than the TTL of its path.
LastGetFresh ==
    lastGet.pre.present /\ lastGet.at - lastGet.pre.storedAt < TTLOf(lastGet.path)

\* C9: a request is answered from the cache, with no live request, exactly when
\* it found an entry younger than its ttl and its bypass flag is clear; the
\* entry is replaced (stored-at = the time of the request) exactly when a live
\* request was made and succeeded, and is otherwise what it was: a failed
\* request leaves an existing entry in place.
C9_CacheHitExactlyWhenFresh ==
    lastGet.by # "none" =>
        /\ ~lastGet.live <=> (LastGetFresh /\ ~lastGet.bypass)
        /\ lastGet.err => lastGet.live
        /\ cache[lastGet.path] =
               IF lastGet.live /\ ~lastGet.err
               THEN [present |-> TRUE, storedAt |-> lastGet.at]
               ELSE lastGet.pre

\* C9: a live request failed while an expired entry, of age exactly the ttl,
\* was in the cache, and the entry is still there.
C9_Witness ==
    /\ lastGet.by = "background"
    /\ lastGet.live /\ lastGet.err
    /\ lastGet.pre.present
    /\ lastGet.at - lastGet.pre.storedAt = TTLOf(lastGet.path)
    /\ cache[lastGet.path] = lastGet.pre

\* C10: every request of a manual refresh carries the bypass flag and is a live
\* request, also when the cache holds a fresh entry; a request of a background
\* pass carries no flag and is answered from the cache whenever the entry is
\* fresh, also while refresh builds are running.
C10_BypassIsPerRequest ==
    /\ lastGet.by = "refresh" => lastGet.bypass /\ lastGet.live
    /\ lastGet.by = "background" =>
           /\ ~lastGet.bypass
           /\ LastGetFresh => ~lastGet.live

\* C10: while a refresh build is running, between its two requests, a background
\* request is answered from the entry the refresh has just stored.
C10_Witness ==
    /\ lastGet.by = "background"
    /\ ~lastGet.live
    /\ lastGet.path = StatusPath
    /\ \E k \in RefreshIds : refreshPc[k] = "resources"

\* C11: in every snapshot a build returns, fast or slow, cluster.OnlineNodes
\* is the number of nodes of the snapshot whose Online flag is true; a node
\* whose status request failed has the flag false and is not counted, so the
\* count is the number of nodes whose request succeeded.
C11_OnlineNodesCountsOnlineFlags ==
    ret.cluster =>
        /\ cluster.OnlineNodes =
               Cardinality({i \in DOMAIN cluster.Nodes : cluster.Nodes[i].Online})
        /\ \A i \in FailedNodes : ~cluster.Nodes[i].Online
        /\ cluster.OnlineNodes = Cardinality(OkNodes)

\* C11: a fast build returned a snapshot in which a node that /cluster/status
\* reported online is offline because its request failed, and another is online.
C11_Witness ==
    /\ fast /\ ret.cluster
    /\ FailedNodes # {}
    /\ cluster.OnlineNodes >= 1
    /\ cluster.OnlineNodes < Len(cluster.Nodes)

\* C12: for every guest of the snapshot, whatever GetVmStatus calls were made
\* for it and whatever they were answered: AgentRunning implies AgentEnabled
\* and Type = qemu.
C12_AgentRunningImpliesEnabledQemu ==
    \A r \in Range(AllRefs(cluster)) :
        VMAt(cluster, r).AgentRunning =>
            VMAt(cluster, r).AgentEnabled /\ VMAt(cluster, r).Type = VMTypeQemu

\* C12: a QEMU guest has its agent running after its second pass.
C12_Witness ==
    \E r \in Range(AllRefs(cluster)) :
        /\ VMAt(cluster, r).AgentRunning
        /\ calls[VMAt(cluster, r).ID] >= 2

\* C13: in every snapshot a build returns, a node whose Online flag is true
\* has its lastMetricsUpdate set, and set by the successful status request of
\* this build; the nodes that were skipped or whose request failed are offline
\* and have no timestamp.
C13_OnlineNodeHasMetricsTimestamp ==
    ret.cluster =>
        \A i \in DOMAIN cluster.Nodes :
            /\ cluster.Nodes[i].Online =>
                   cluster.Nodes[i].lastMetricsUpdate = 1 /\ nodeTask[i] = "ok"
            /\ nodeTask[i] # "ok" => cluster.Nodes[i].lastMetricsUpdate = 0

\* C13: a returned snapshot has an online node with its timestamp, a node that
\* /cluster/status reported offline and a node whose request failed.
C13_Witness ==
    /\ ret.cluster
    /\ \E i \in DOMAIN cluster.Nodes :
         cluster.Nodes[i].Online /\ cluster.Nodes[i].lastMetricsUpdate = 1
    /\ \E i \in DOMAIN nodeTask : nodeTask[i] = "skipped"
    /\ FailedNodes # {}

\* C14: in every snapshot a build returns cluster.OnlineNodes <= TotalNodes,
\* also when /cluster/status carries node records but no cluster record.
C14_OnlineAtMostTotal ==
    ret.cluster => cluster.OnlineNodes <= cluster.TotalNodes

\* The entries of a list are in the order SetVMs shows them: running guests
\* first, then by ID.
IsSortedVMs(vms) ==
    \A i, j \in DOMAIN vms : i < j => ~VMLess(vms[j], vms[i])

\* A refresh has shown its lists.
RefreshApplied == ui.last.selNode # ""

\* C15: after a filter is applied, and after a refresh with an active filter,
\* the filtered list of each kind is exactly the filter of the current
\* original list: a part of it, every entry containing the filter without
\* regard to case; and the list shown is that filtered list.
C15_FilteredViewDerivedFromOriginal ==
    /\ ui.filtVMs = FilterVMs(ui.origVMs, ui.vmFilter)
    /\ ui.filtNodes = FilterNodes(ui.origNodes, ui.nodeFilter)
    /\ Range(ui.filtVMs) \subseteq Range(ui.origVMs)
    /\ Range(ui.filtNodes) \subseteq Range(ui.origNodes)
    /\ \A v \in Range(ui.filtVMs) : ContainsFold(v.Name, ui.vmFilter)
    /\ \A n \in Range(ui.filtNodes) : ContainsFold(<<n.Name>>, ui.nodeFilter)
    /\ Range(ui.shownVMs) = Range(ui.filtVMs)
    /\ ui.shownNodes = ui.filtNodes

\* A refresh with an active guest filter brought a guest that passes the
\* filter and was not in the list before, and one that does not pass it.
C15_Witness ==
    /\ RefreshApplied
    /\ ui.vmFilter = <<"a">>
    /\ ui.nodeFilter # <<>>
    /\ ui.origVMs = ui.fetched[1].vms
    /\ Len(ui.filtVMs) = 1
    /\ Len(ui.origVMs) = 2
    /\ Len(ui.filtNodes) < Len(ui.origNodes)

\* C16 as stated: when a refresh is shown, a guest that was selected when it
\* was requested and is in the refreshed guest list is the selected guest
\* again; likewise the selected node.
C16_SelectionRemappedByIdentity ==
    [][\A k \in RefreshIds :
         (refreshPc[k] = "queued" /\ refreshPc'[k] = "done") =>
            /\ ui.saved[k].selVM \in {VMKey(v) : v \in Range(ui'.filtVMs)}
                 => GetSelectedVM(ui') = ui.saved[k].selVM
            /\ ui.saved[k].selNode \in {n.Name : n \in Range(ui'.filtNodes)}
                 => GetSelectedNode(ui') = ui.saved[k].selNode]_vars

\* C16, amended: when a refresh is shown, the guests are shown running first
\* and then by ID, the nodes in the order of the response, and the current
\* item of each list is the index stored when the refresh was requested if
\* the refreshed list has that index, the first item otherwise.
C16_SelectionRestoredByIndex ==
    [][\A k \in RefreshIds :
         (refreshPc[k] = "queued" /\ refreshPc'[k] = "done") =>
            /\ IsSortedVMs(ui'.shownVMs)
            /\ Range(ui'.shownVMs) = Range(ui'.filtVMs)
            /\ ui'.shownNodes = ui'.filtNodes
            /\ ui'.vmIndex = IF ui.saved[k].vm < Len(ui'.shownVMs)
                             THEN ui.saved[k].vm ELSE 0
            /\ ui'.nodeIndex = IF ui.saved[k].node < Len(ui'.shownNodes)
                               THEN ui.saved[k].node ELSE 0]_vars

\* A refresh changed the order of the guests and of the nodes: the guest and
\* the node selected before are still in the lists, and other ones are
\* selected now.
C16_Witness ==
    /\ RefreshApplied
    /\ ui.last.selVM \in {VMKey(v) : v \in Range(ui.filtVMs)}
    /\ ui.last.nowVM # ui.last.selVM
    /\ ui.last.selNode \in {n.Name : n \in Range(ui.filtNodes)}
    /\ ui.last.nowNode # ui.last.selNode
    /\ ui.last.vm = 0

\* The names of the interfaces GetVmStatus left in the guest.
KeptNames == {net.vm.NetInterfaces[k].Name : k \in DOMAIN net.vm.NetInterfaces}

\* C17: for a QEMU guest whose agent answered, a reported interface is kept
\* exactly if it is not loopback, its name does not start with veth, and the
\* set of configured MACs is empty or has its upper-cased MAC.
C17_QemuInterfaceKeptIff ==
    (net.step = "enriched" /\ net.vm.Type = VMTypeQemu /\ net.vm.AgentRunning) =>
        \A i \in DOMAIN net.raw :
            net.raw[i].Name \in KeptNames
            <=> /\ ~net.raw[i].IsLoopback
                /\ ~HasVethPrefix(net.raw[i].Name)
                /\ \/ net.vm.ConfiguredMACs.set = {}
                   \/ ToUpper(net.raw[i].MACAddress) \in net.vm.ConfiguredMACs.set

\* The address the interface should keep, by the positions in the reported
\* list: the first IPv4 address, else the first IPv6 address, else the first
\* address, else none.
FirstIndexOf(addrs, S) == CHOOSE i \in S : \A j \in S : i <= j

ExpectedAddresses(addrs) ==
    LET v4 == {i \in DOMAIN addrs : addrs[i].Type = IPTypeIPv4}
        v6 == {i \in DOMAIN addrs : addrs[i].Type = IPTypeIPv6}
    IN IF v4 # {} THEN <<addrs[FirstIndexOf(addrs, v4)]>>
       ELSE IF v6 # {} THEN <<addrs[FirstIndexOf(addrs, v6)]>>
       ELSE IF addrs # <<>> THEN <<addrs[1]>>
       ELSE <<>>

\* The reported interface of the name.
RawNamed(name) == CHOOSE iface \in Range(net.raw) : iface.Name = name

\* C18: every interface GetVmStatus left in a guest, QEMU or LXC, has at most
\* one address: the first IPv4 address of the reported list if it has one,
\* else the first IPv6 address, else the first address, and none only if
\* none was reported.
C18_OneBestAddressPerInterface ==
    net.step = "enriched" =>
        \A k \in DOMAIN net.vm.NetInterfaces :
            LET kept == net.vm.NetInterfaces[k]
                reported == RawNamed(kept.Name).IPAddresses
            IN /\ Len(kept.IPAddresses) <= 1
               /\ kept.IPAddresses = ExpectedAddresses(reported)
               /\ kept.IPAddresses = <<>> <=> reported = <<>>

\* An LXC guest keeps an interface that reported an IPv6 address, an IPv4
\* address and another IPv6 address: the IPv4 address.
C18_Witness ==
    /\ net.step = "enriched"
    /\ net.vm.Type = VMTypeLXC
    /\ Len(net.vm.NetInterfaces) = 1
    /\ net.raw[1].IPAddresses = <<Addr6a, Addr4, Addr6b>>
    /\ net.vm.NetInterfaces[1].IPAddresses = <<Addr4>>

\* The guests of the snapshot.
SnapshotGuests == {VMAt(cluster, r) : r \in Range(AllRefs(cluster))}

\* C19: the IP of every guest of the snapshot and of every guest record the
\* client returned is empty or a valid address, whether it came from
\* /cluster/resources or from the guest's config; a config entry with
\* ip=dhcp leaves the IP empty and its hwaddr is in the configured MACs.
C19_GuestIPEmptyOrValid ==
    /\ \A vm \in SnapshotGuests : vm.IP = "" \/ ParseIP(vm.IP)
    /\ net.step # "none" => (net.vm.IP = "" \/ ParseIP(net.vm.IP))
    /\ (net.step = "detailed" /\ net.config.nets = <<LxcDhcpNet>>) =>
          /\ net.vm.IP = ""
          /\ MacA \in net.vm.ConfiguredMACs.set

\* The table of TestConfigIntegration_DefaultsAndValidation and the cases of
\* TestConfigIntegration_EnvironmentVariables: the config, whether an error
\* is expected, and the text the error has to contain.
ValidationCases ==
    {[config |-> Config("https://valid.example.com:8006", "validuser", "validpass", "", "", ""),
      expectError |-> FALSE, errorMsg |-> ""],
     [config |-> Config("https://valid.example.com:8006", "validuser", "", "validtoken", "validsecret", ""),
      expectError |-> FALSE, errorMsg |-> ""],
     [config |-> Config("", "user", "pass", "", "", ""),
      expectError |-> TRUE, errorMsg |-> "address required"],
     [config |-> Config("https://example.com:8006", "", "pass", "", "", ""),
      expectError |-> TRUE, errorMsg |-> "username required"],
     [config |-> Config("https://example.com:8006", "user", "", "", "", ""),
      expectError |-> TRUE, errorMsg |-> "authentication required"],
     [config |-> Config("https://example.com:8006", "user", "", "token", "", ""),
      expectError |-> TRUE, errorMsg |-> "authentication required"],
     [config |-> SetDefaults(Config("https://env.example.com:8006", "envuser", "envpass", "", "", "pam")),
      expectError |-> FALSE, errorMsg |-> ""],
     [config |-> SetDefaults(Config("https://token.example.com:8006", "tokenuser", "", "mytoken", "secret123", "pve")),
      expectError |-> FALSE, errorMsg |-> ""],
     [config |-> SetDefaults(Config("https://noauth.example.com:8006", "noauthuser", "", "", "", "")),
      expectError |-> TRUE, errorMsg |-> ""]}

\* C20: validation fails exactly if Addr is empty, or User is empty, or there
\* is neither a password nor a token with both its ID and its secret; and the
\* cases of the tests get the results the tests expect.
C20_ValidationFailsIff ==
    /\ cfg.step = "validated" =>
          (cfg.err # ""
           <=> \/ cfg.config.Addr = ""
               \/ cfg.config.User = ""
               \/ /\ cfg.config.Password = ""
                  /\ ~(cfg.config.TokenID # "" /\ cfg.config.TokenSecret # ""))
    /\ \A case \in ValidationCases :
          /\ (Validate(case.config) # "") = case.expectError
          /\ case.errorMsg # "" => Validate(case.config) = case.errorMsg

\* A config with address, user and a token ID, without token secret and
\* without password, was rejected.
C20_Witness ==
    /\ cfg.step = "validated"
    /\ cfg.config.Addr # ""
    /\ cfg.config.User # ""
    /\ cfg.config.Password = ""
    /\ cfg.config.TokenID # ""
    /\ cfg.config.TokenSecret = ""
    /\ cfg.err = "authentication required"


\* The value a field has by the precedence flag > file > environment >
\* built-in default.
ByPrecedence(k) ==
    IF proc.flags[k] # "" THEN proc.flags[k]
    ELSE IF proc.hasFile /\ proc.file[k] # "" THEN proc.file[k]
    ELSE IF proc.env[k] # "" THEN proc.env[k]
    ELSE IF k = "Realm" THEN "pam" ELSE ""

\* C21: once main() has made the config, every field has the value of the
\* flag, else of the config file, else of the environment variable, else the
\* built-in default.
C21_FlagOverFileOverEnvironment ==
    proc.loaded = "main" => \A k \in DOMAIN proc.config : proc.config[k] = ByPrecedence(k)

C24_OfflineNodeHasNoFreshMetrics ==
    ret.returned /\ ret.cluster =>
        \A i \in DOMAIN cluster.Nodes :
            ~cluster.Nodes[i].Online =>
                /\ cluster.Nodes[i].Version = ""
                /\ cluster.Nodes[i].CPUCount = 0
                /\ cluster.Nodes[i].CPUUsage = 0
                /\ cluster.Nodes[i].MemoryTotal = 0
                /\ cluster.Nodes[i].MemoryUsed = 0
                /\ cluster.Nodes[i].lastMetricsUpdate = 0

\* C25: no task has an HTTP request in flight while it holds the lock of a
\* guest.
C25_NoRequestWhileLockHeld ==
    \A id \in DOMAIN vmTask : vmTask[id].http => ~vmTask[id].locked

\* The phases of a build, read off the positions of its goroutines.
Phase2Complete == \A i \in DOMAIN nodeTask : nodeTask[i] # "idle"
Phase3Complete == pc \in {"p4", "p5", "return"} \/ (pc = "done" /\ ret.cluster)
Phase4Started == enrichPc # "none"
Phase4Complete == enrichPc = "returned"
Phase5Complete == pc = "return" \/ (pc = "done" /\ ret.cluster)

\* The order of the phases 1, 2 and 3, which both builds have: the node
\* enrichment works on the nodes phase 1 has made, phase 3 starts when every
\* node's goroutine has finished, and the guests are not enriched before
\* phase 3 is complete.
FirstPhasesOrdered ==
    /\ pc = "p1" => cluster = NewCluster
    /\ pc # "p1" /\ nodeTask # <<>> => DOMAIN nodeTask = DOMAIN cluster.Nodes
    /\ pc = "p3" => Phase2Complete
    /\ Phase3Complete => Phase2Complete
    /\ Phase4Started => Phase3Complete

\* C26, as stated: the five phases run in the order cluster status, node
\* enrichment, cluster resources, guest enrichment, totals, each after the
\* previous one has completed, in a fast build as in a slow build.
C26_FivePhasesTotallyOrdered ==
    /\ FirstPhasesOrdered
    /\ Phase5Complete => Phase4Complete

\* C26, amended: phases 1, 2 and 3 run in this order in both builds. The slow
\* build then enriches the guests and computes the totals when the enrichment
\* has returned; the fast build computes the totals right after phase 3 and
\* starts the guest enrichment afterwards, in its background goroutine.
C26_PhasesOrderedFastEnrichesLast ==
    /\ FirstPhasesOrdered
    /\ ~fast => (Phase5Complete => Phase4Complete)
    /\ fast => (Phase4Started => Phase5Complete)

\* A fast build has computed its totals and returned the snapshot while its
\* guest enrichment is still running.
C26_Witness ==
    /\ fast
    /\ pc = "done" /\ ret.cluster
    /\ enrichPc \in {"queue", "wait"}
    /\ Phase2Complete

\* The step of the retry loop that visits the guest at the head of retryLeft.
RetryVisit == bgPc = "retry" /\ retryLeft # <<>> /\ retryLeft' = Tail(retryLeft)

\* The guest the retry loop visits, as the initial pass has left it.
Visited == VMAt(cluster, Head(retryLeft))

\* GetVmStatus was called for the visited guest, and for no other guest.
RetriedVisited ==
    /\ calls'[Visited.ID] = calls[Visited.ID] + 1
    /\ \A id \in GuestIds \ {Visited.ID} : calls'[id] = calls[id]

\* C27, as stated: the retry pass calls GetVmStatus once more for a guest
\* exactly if the guest is a running QEMU guest that is agent-enabled and not
\* agent-running after the initial pass; no guest is enriched more than twice.
C27_RetryOnlyAgentNotRunning ==
    /\ [][RetryVisit =>
            IF /\ Visited.Status = "running" /\ Visited.Type = "qemu"
               /\ Visited.AgentEnabled /\ ~Visited.AgentRunning
            THEN RetriedVisited
            ELSE calls' = calls]_vars
    /\ [](\A id \in GuestIds : calls[id] <= 2)

\* C27, amended: the retry pass visits each guest of an online node once and
\* calls GetVmStatus once more exactly if the guest is a running QEMU guest
\* that is agent-enabled and either not agent-running or without a network
\* interface the filter kept; no guest is enriched more than twice.
C27_RetryAgentNotRunningOrNoInterfaces ==
    /\ [][RetryVisit =>
            IF /\ Visited.Status = "running" /\ Visited.Type = "qemu"
               /\ Visited.AgentEnabled
               /\ (~Visited.AgentRunning \/ Visited.NetInterfaces = 0)
            THEN RetriedVisited
            ELSE calls' = calls]_vars
    /\ [][bgPc = "enrich" /\ bgPc' = "retry" =>
            /\ \A i, j \in DOMAIN retryLeft' : retryLeft'[i] = retryLeft'[j] => i = j
            /\ \A r \in Range(AllRefs(cluster)) :
                  cluster.Nodes[r[1]].Online => \E i \in DOMAIN retryLeft' : retryLeft'[i] = r]_vars
    /\ [](\A id \in GuestIds : calls[id] <= 2)
    /\ [](bgPc \notin {"retry", "done"} => \A id \in GuestIds : calls[id] <= 1)

\* The retry pass has enriched the first guest again, and now visits a guest
\* whose agent is running but which has no interface left after the filter.
C27_Witness ==
    /\ bgPc = "retry"
    /\ Len(retryLeft) = 1
    /\ calls[101] = 2
    /\ calls[102] = 1
    /\ Visited.AgentEnabled /\ Visited.AgentRunning /\ Visited.NetInterfaces = 0

\* The UI thread runs the function of a script fetch that was dismissed on
\* the loading page while it was in flight.
LateCompletion ==
    /\ app.jobs # <<>>
    /\ app'.jobs = Tail(app.jobs)
    /\ Head(app.jobs).kind = "scripts"
    /\ app.fetches[Head(app.jobs).id].dismissed

\* C28: the completion of a fetch whose loading dialog was dismissed changes
\* neither the shown page, nor the focus, nor the stored list of scripts.
C28_LateCompletionDropped ==
    [][LateCompletion =>
          /\ app'.page = app.page
          /\ app'.focus = app.focus
          /\ app'.scripts = app.scripts]_vars

\* A step of a worker goroutine: a request of the refresh build returns, the
\* script fetch returns, or the VNC connection returns.
GoroutineStep ==
    \/ \E k \in RefreshIds :
          refreshPc[k] \in {"status", "resources"} /\ refreshPc'[k] # refreshPc[k]
    \/ \E i \in DOMAIN app.fetches :
          app.fetches[i].st = "running" /\ app'.fetches[i].st = "queued"
    \/ app.conn.st = "running" /\ app'.conn.st = "queued"

\* A function queued with QueueUpdateDraw runs on the UI thread.
DrawJobStep ==
    \/ \E k \in RefreshIds :
          refreshPc[k] \in {"queued", "failed"} /\ refreshPc'[k] = "done"
    \/ app.jobs # <<>> /\ app'.jobs = Tail(app.jobs)

\* The state the user sees: the lists, the filters and the selection of ui
\* (all but the result the refresh goroutine holds), and the page, the
\* focus, the scripts and the header of app.
Shown(u, a) ==
    <<[u EXCEPT !.fetched = <<>>], a.page, a.focus, a.isLoading, a.scripts, a.header>>

\* C30: a step of a worker goroutine leaves the lists, the filter state, the
\* pages and the header as they are; the result of a refresh, of a script
\* fetch or of a VNC connection is written by a function that runs as a draw
\* job on the UI thread.
C30_BackgroundResultsWrittenByDrawJobs ==
    [][/\ GoroutineStep => Shown(ui', app') = Shown(ui, app)
       /\ (ui'.origVMs # ui.origVMs \/ ui'.shownVMs # ui.shownVMs
           \/ ui'.origNodes # ui.origNodes \/ ui'.shownNodes # ui.shownNodes
           \/ app'.scripts # app.scripts) => DrawJobStep]_vars

\* The refresh build, a script fetch and the VNC connection have returned and
\* their functions are queued: the old lists and the loading page are still
\* shown.
C30_Witness ==
    /\ refreshPc[1] = "queued"
    /\ ui.fetched[1] # NoFetched
    /\ Len(ui.shownVMs) = 1
    /\ app.page = "loading" /\ app.scripts = <<>>
    /\ Len(app.jobs) = 2
    /\ app.conn.st = "queued"

\* C29, as stated: every guest GetVmStatus has run for has Enriched = TRUE.
C29_EnrichedAfterEveryRun ==
    \A r \in Range(AllRefs(cluster)) :
        calls[VMAt(cluster, r).ID] > 0 => VMAt(cluster, r).Enriched

\* C29, amended: a GetVmStatus call whose status request succeeds returns nil
\* and leaves the guest with Enriched = TRUE, whatever the config request and
\* the agent answer; a call whose status request fails returns the error and
\* leaves the guest as it was, so a guest that was never enriched stays so.
C29_EnrichedUnlessStatusRequestFails ==
    \A r \in Range(AllRefs(cluster)) :
        LET vm == VMAt(cluster, r) IN
        /\ \A resp \in AllVmResponses :
              IF resp.ok
              THEN GetVmStatus(vm, resp).vm.Enriched /\ ~GetVmStatus(vm, resp).err
              ELSE GetVmStatus(vm, resp).vm = vm /\ GetVmStatus(vm, resp).err
        /\ calls[vm.ID] = 0 => ~vm.Enriched
        /\ vm.Enriched => calls[vm.ID] > 0

\* A running QEMU guest is enriched although its agent gave nothing, and the
\* call for another guest failed and left it unenriched.
C29_Witness ==
    /\ \E r \in Range(AllRefs(cluster)) :
          /\ VMAt(cluster, r).Type = "qemu" /\ VMAt(cluster, r).Status = "running"
          /\ calls[VMAt(cluster, r).ID] = 1
          /\ VMAt(cluster, r).Enriched
          /\ ~VMAt(cluster, r).AgentRunning
          /\ VMAt(cluster, r).NetInterfaces = 0
    /\ \E r \in Range(AllRefs(cluster)) :
          calls[VMAt(cluster, r).ID] = 1 /\ ~VMAt(cluster, r).Enriched

\* Phase 2 done one node after the other, in list order.
NodesInOrder(c) ==
    [c EXCEPT !.Nodes = [i \in DOMAIN c.Nodes |->
                            updateNodeMetrics(c.Nodes[i], upFixed.node[i]).node]]

\* GetVmStatus done for the guests refs, or in the retry pass for those of
\* them that need it, one after the other, in the order of refs.
RECURSIVE GuestsInOrder(_, _, _)
GuestsInOrder(c, refs, retry) ==
    IF refs = <<>> THEN c
    ELSE LET r == Head(refs)
             vm == VMAt(c, r)
             c1 == IF ~retry \/ NeedsRetry(vm)
                   THEN [c EXCEPT !.Nodes[r[1]].VMs[r[2]] =
                                     GetVmStatus(vm, upFixed.vm[vm.ID]).vm]
                   ELSE c
         IN GuestsInOrder(c1, Tail(refs), retry)

\* The snapshot of a build whose tasks run one after the other.
SequentialSnapshot ==
    LET c3 == processClusterResources(
                  NodesInOrder(getClusterBasicStatus(NewCluster, upStatus)),
                  upResources)
        first(c) == GuestsInOrder(c, QueueOrder(c), FALSE)
        retry(c) == GuestsInOrder(c, RetryOrder(c), TRUE)
    IN IF fast
       THEN retry(first(calculateClusterTotals(c3)))
       ELSE calculateClusterTotals(first(c3))

\* The build has returned a snapshot and nothing writes it any more.
SnapshotFinal ==
    /\ ret.returned
    /\ ret.cluster
    /\ fast => bgPc = "done"

\* C31: for fixed upstream answers the finished snapshot of a build is the
\* one a build gets whose node tasks and guest tasks run one after the other
\* in list order, whatever the order in which the tasks complete and whichever
\* worker takes which guest: nodes, guests and totals are the same.
C31_SnapshotIndependentOfTaskOrder ==
    SnapshotFinal => cluster = SequentialSnapshot

\* A fast build has finished; both guests were enriched, the first failed on
\* every call, the second was enriched again by the retry pass, and the
\* status request of the second node failed.
C31_Witness ==
    /\ SnapshotFinal
    /\ fast
    /\ calls[101] = 1 /\ ~VMAt(cluster, <<1, 1>>).Enriched
    /\ calls[102] = 2 /\ VMAt(cluster, <<1, 2>>).Enriched
    /\ nodeTask = <<"ok", "failed">>

\* C32: the config request of a guest is served from the cache as long as its
\* entry is younger than 60 s, also when the entry is 5 s old or older, the
\* age at which a status/current entry stored at the same time has expired.
C32_ConfigEntryOutlivesStatusEntry ==
    (/\ lastGet.by = "vm"
     /\ lastGet.path = VmConfigPath
     /\ lastGet.pre.present
     /\ lastGet.at - lastGet.pre.storedAt >= 5
     /\ lastGet.at - lastGet.pre.storedAt < 60)
    => ~lastGet.live

\* The guests EnrichVMs has to enrich: the running guests of the online nodes.
PoolTasks == Range(QueueOrder(cluster))

\* How often guest r was received by a worker.
TimesHanded(r) == Cardinality({i \in DOMAIN pool.handed : pool.handed[i] = r})

\* C33: EnrichVMs returns, also when it has more guests and more results than
\* its channels hold, provided every GetVmStatus call returns; when it has
\* returned, every running guest of an online node was received by a worker
\* exactly once, no other guest was received, every worker has left its loop
\* and the error collector has stopped.
C33_EnrichVMsTerminates ==
    /\ <>(pool.pc = "returned")
    /\ [](pool.pc = "returned" =>
            /\ \A r \in PoolTasks : TimesHanded(r) = 1
            /\ Range(pool.handed) \subseteq PoolTasks
            /\ pool.vmChan = <<>> /\ pool.errChan = <<>>
            /\ \/ totalVMs(cluster) = 0 /\ pool.collector = "off"
                  /\ \A w \in Workers : pool.worker[w].st = "off"
               \/ pool.collector = "done"
                  /\ \A w \in Workers : pool.worker[w].st = "exited")

\* EnrichVMs has returned after a call with more guests than its channels
\* hold, every one of which failed.
C33_Witness ==
    /\ pool.pc = "returned"
    /\ Len(pool.handed) > ChanCap
    /\ pool.errors = Len(pool.handed)
    /\ pool.collector = "done"

\* C34: at every moment of a build, retry pass included, a guest that is not
\* running or whose node is offline has had no GetVmStatus call, is not
\* enriched, is not agent-running and has no network interface.
C34_OnlyRunningGuestsOfOnlineNodesEnriched ==
    \A r \in Range(AllRefs(cluster)) :
        LET vm == VMAt(cluster, r) IN
        (vm.Status # VMStatusRunning \/ ~cluster.Nodes[r[1]].Online) =>
            /\ calls[vm.ID] = 0
            /\ ~vm.Enriched
            /\ ~vm.AgentRunning
            /\ vm.NetInterfaces = 0

\* A fast build has finished with its retry pass: the running guest of the
\* online node is enriched, the second guest is on a node that /cluster/status
\* reported online and whose status request failed, and was left alone.
C34_Witness ==
    /\ SnapshotFinal
    /\ fast
    /\ upStatus = StatusItems(2, <<1, 1>>)
    /\ nodeTask = <<"ok", "failed">>
    /\ Len(cluster.Nodes[2].VMs) = 1
    /\ cluster.Nodes[2].VMs[1].Status = VMStatusRunning
    /\ ~cluster.Nodes[2].VMs[1].Enriched
    /\ calls[101] = 2
    /\ cluster.Nodes[1].VMs[1].Enriched

\* C35: a call whose status/current request fails, or whose response has no
\* object under "data", returns an error and leaves the guest as it was
\* before the call: disk values, address, configured MACs, agent flags,
\* interfaces and the enriched flag; this also holds for the worker of
\* EnrichVMs around the call.
C35_FailedStatusLeavesGuestUntouched ==
    (net.step = "called" /\ (~net.status.ok \/ ~net.status.hasData)) =>
        /\ net.err
        /\ net.vm = net.before
        /\ \A config \in NetConfigs(net.vm.Type), raw \in WorkerRaws, fs \in FsAnswers :
              GetVmStatusCall(net.before, net.status, config, raw, fs).vm = net.before

\* The response of the second call has no object under "data"; the first call
\* had enriched the guest, with disk values, an address and an interface.
C35_Witness ==
    /\ net.step = "called"
    /\ net.passes = 2
    /\ net.status.ok /\ ~net.status.hasData
    /\ net.err
    /\ net.vm.Enriched /\ net.vm.AgentRunning
    /\ net.vm.Disk > 0 /\ net.vm.IP # "" /\ net.vm.NetInterfaces # <<>>

\* C36, as stated: no connection is started before the warning was confirmed
\* once; every VNC request made before the first confirmation shows the
\* warning, no request made after it does; and no connection is started for
\* an offline node.
C36_WarningOnEveryRequestUntilConfirmed ==
    /\ shell.started # <<>> => shell.vncWarningShown
    /\ shell.last.did # "none" =>
          (shell.last.did = "warning" <=> ~shell.last.shown)
    /\ \A k \in DOMAIN shell.started :
          shell.started[k].kind = "node" => shell.started[k].online

\* C36, amended: no connection is started before the warning was confirmed
\* once; a request whose selection is empty, whose node is offline or whose
\* target has no VNC shows a message, neither the warning nor a connection;
\* every other request made before the first confirmation shows the warning,
\* and a request made after it connects without the warning; no connection is
\* started for a node whose record was offline at the request.
C36_WarningOnEveryAcceptedRequestUntilConfirmed ==
    /\ shell.started # <<>> => shell.vncWarningShown
    /\ shell.last.did # "none" =>
          /\ shell.last.did = "message" <=> ~shell.last.passed
          /\ shell.last.did = "warning" <=> (shell.last.passed /\ ~shell.last.shown)
          /\ shell.last.did = "connect" <=> (shell.last.passed /\ shell.last.shown)
          /\ ~shell.last.passed <=>
                \/ shell.last.target.kind = "none"
                \/ shell.last.target.kind = "node" /\ ~shell.last.target.online
                \/ shell.last.reason = "VNC not available"
          /\ ~shell.last.passed => shell.message = shell.last.reason
    /\ \A k \in DOMAIN (shell.started \o shell.dialogs) :
          LET t == (shell.started \o shell.dialogs)[k]
          IN t.kind # "none" /\ (t.kind = "node" => t.online)

\* The warning was confirmed once and a connection to the guest was started
\* by it; the next request, for the offline node and before any other
\* confirmation, showed a message; a request for the online node then
\* connected without a warning.
C36_Witness ==
    /\ shell.vncWarningShown
    /\ Len(shell.started) = 2
    /\ shell.started[1].kind = "vm"
    /\ shell.started[2].kind = "node"
    /\ shell.message = "Node is offline"
    /\ shell.last.did = "connect"
    /\ shell.dialogs = <<>>

\* The guest records of /cluster/resources.
GuestRecords ==
    {k \in DOMAIN upResources : upResources[k].type \in {VMTypeQemu, VMTypeLXC}}

\* The places <<node index, guest index>> at which the cluster holds guest id.
PlacesOf(c, id) == {r \in Range(AllRefs(c)) : VMAt(c, r).ID = id}

\* Phase 3 has processed the /cluster/resources response.
ResourcesProcessed == pc \in {"p4", "p5", "return"} \/ (pc = "done" /\ ret.cluster)

\* C37: every guest of the cluster is in the guest list of the node whose name
\* is the guest's Node; once phase 3 has processed /cluster/resources, a guest
\* record that names a node of /cluster/status is held exactly once, in the
\* list of that node, online or offline, and a record that names a node absent
\* from /cluster/status is held nowhere.
C37_GuestHeldByItsNode ==
    /\ \A r \in Range(AllRefs(cluster)) :
          VMAt(cluster, r).Node = cluster.Nodes[r[1]].Name
    /\ ResourcesProcessed =>
          \A k \in GuestRecords :
              LET rec == upResources[k]
                  i == NodeIndex(cluster, rec.node)
              IN IF i = 0
                 THEN PlacesOf(cluster, rec.vmid) = {}
                 ELSE /\ Cardinality(PlacesOf(cluster, rec.vmid)) = 1
                      /\ \A r \in PlacesOf(cluster, rec.vmid) : r[1] = i

\* A build has returned a snapshot whose second node is offline and holds the
\* second guest in its list.
C37_Witness ==
    /\ ret.returned /\ ret.cluster
    /\ ~cluster.Nodes[2].Online
    /\ upResources[2].node = "b"
    /\ PlacesOf(cluster, 102) = {<<2, 1>>}
    /\ VMAt(cluster, <<2, 1>>).Node = "b"

\* A build has returned a snapshot and the record of the second guest, which
\* names a node that /cluster/status does not list, was dropped.
C37_WitnessDropped ==
    /\ ret.returned /\ ret.cluster
    /\ upResources[2].node = "c"
    /\ PlacesOf(cluster, 102) = {}
    /\ PlacesOf(cluster, 101) = {<<1, 1>>}

\* C38: whenever startMainApp is entered, from main or from the onboarding
\* flow with or without a run of the interactive editor, validation of the
\* config it is given succeeds.
C38_MainAppOnlyWithValidConfig ==
    proc.pc = "startMainApp" => Validate(proc.config) = ""

\* The fetches whose goroutine is still waiting for scripts.GetScriptsByCategory.
FetchesInFlight == {i \in DOMAIN app.fetches : app.fetches[i].st = "running"}

\* C39: at no time are two script fetches of the selector in flight, also
\* after the loading page was left with Backspace, Escape or h.
C39_AtMostOneFetchInFlight == Cardinality(FetchesInFlight) <= 1

\* C40: two calls of GetDetailedVmInfo for the same guest that get the same
\* status and config responses return the same guest record, address
\* included, also when several netN entries of the config carry a valid
\* static address.
C40_DetailedInfoDeterministic ==
    net.step = "detailed again" => net.vm = net.first

====
